---- MODULE Spec2Model ----
(***************************************************************************)
(* A model of the PhishGuard-AI backend (src/backend/app.py, db.py,        *)
(* config.py): bearer-token and legacy-secret authorization, the users     *)
(* table, the permissions mirror, the prediction log and the lazy schema   *)
(* bootstrap.                                                              *)
(*                                                                         *)
(* Text values the code inspects character by character (header values,    *)
(* e-mail addresses, user names) are sequences of one-character strings,   *)
(* so that lower(), strip(), startswith(), isdigit() and "@" in s are      *)
(* computed.  An optional value is <<>> (None / absent) or <<v>>.          *)
(***************************************************************************)
EXTENDS Integers, Sequences, FiniteSets, TLC

VARIABLES
    ADMIN_TOKEN,      \* config.ADMIN_TOKEN, read once from the environment
    now,              \* the clock, in seconds
    last,             \* the last call handled: its inputs and what it answered
    schema_ready,     \* db._schema_ready
    schema_lock,      \* db._schema_lock: 0 when free, else the thread holding it
    users,            \* the users table (committed rows), row i has id i
    perms,            \* the user_permissions mirror: username -> can_delete_own_logs
    logs,             \* the predictions table (committed rows)
    next_log_id,      \* AUTO_INCREMENT of the predictions table
    issued,           \* the tokens /auth/login has handed out
    MODEL,            \* app.MODEL: "none", "pipeline" or "incompatible"
    pc,               \* where each thread is inside init_db
    txn,              \* each thread's open transaction: the rows inserted, uncommitted
    user_count,       \* init_db's local user_count, per thread
    saw_ready,        \* per thread: _schema_ready was set when the call arrived
    took_lock,        \* per thread: the call acquired _schema_lock
    boot_runs,        \* how often the bootstrap insert block was executed
    boot_commits,     \* how often a transaction holding bootstrap rows was committed
    faults,           \* how many store failures have been injected
    conn              \* the database operation in progress and its connections

vars == <<ADMIN_TOKEN, now, last, schema_ready, schema_lock, users, perms, logs,
          next_log_id, issued, MODEL, pc, txn, user_count, saw_ready, took_lock,
          boot_runs, boot_commits, faults, conn>>

dbVars == <<users, perms, logs, next_log_id>>

threadVars == <<schema_lock, pc, txn, user_count, saw_ready, took_lock,
                boot_runs, boot_commits, faults, conn>>

MaxThreads == 2

Threads == 1..MaxThreads

\* a function with no argument: an empty table keyed by name
EmptyMap == [x \in {} |-> FALSE]

\* the store of a fresh install
DbEmpty ==
    /\ users = <<>>
    /\ perms = EmptyMap
    /\ logs = {}
    /\ next_log_id = 1

\* no database operation in progress, no connection open
ConnIdle ==
    [pc |-> "idle", op |-> "", attempt |-> 0, connects |-> 0, sleeps |-> 0, open |-> 0,
     exc |-> ""]

\* no thread is inside init_db
ThreadsIdle ==
    /\ schema_lock = 0
    /\ pc = [t \in Threads |-> "idle"]
    /\ txn = [t \in Threads |-> <<>>]
    /\ user_count = [t \in Threads |-> 0]
    /\ saw_ready = [t \in Threads |-> FALSE]
    /\ took_lock = [t \in Threads |-> FALSE]
    /\ boot_runs = 0
    /\ boot_commits = 0
    /\ faults = 0
    /\ conn = ConnIdle

(***************************************************************************)
(* Text helpers                                                            *)
(***************************************************************************)
\* str.lower() on one character, for the letters the model uses
LowerChar(c) ==
    CASE c = "A" -> "a"
      [] c = "B" -> "b"
      [] c = "E" -> "e"
      [] c = "N" -> "n"
      [] c = "R" -> "r"
      [] c = "X" -> "x"
      [] OTHER -> c

Lower(s) == [i \in 1..Len(s) |-> LowerChar(s[i])]

IsSpace(c) == c = " "

RECURSIVE LStrip(_)
LStrip(s) == IF s # <<>> /\ IsSpace(Head(s)) THEN LStrip(Tail(s)) ELSE s

RECURSIVE RStrip(_)
RStrip(s) ==
    IF s # <<>> /\ IsSpace(s[Len(s)]) THEN RStrip(SubSeq(s, 1, Len(s) - 1)) ELSE s

Strip(s) == LStrip(RStrip(s))

StartsWith(s, p) == Len(s) >= Len(p) /\ SubSeq(s, 1, Len(p)) = p

\* "U+00E9" stands for a non-ASCII character (a latin-1 header byte)
IsAscii(s) == \A i \in 1..Len(s) : s[i] # "U+00E9"

\* All sequences over alphabet A of length at most n
RECURSIVE SeqsUpTo(_, _)
SeqsUpTo(A, n) ==
    IF n = 0 THEN {<<>>}
    ELSE LET shorter == SeqsUpTo(A, n - 1)
         IN shorter \cup {Append(s, c) : s \in {t \in shorter : Len(t) = n - 1}, c \in A}

(***************************************************************************)
(* Configuration (config.py)                                               *)
(***************************************************************************)
AUTH_SECRET == "dev-secret-change-me"
AUTH_TOKEN_TTL_SECONDS == 604800

(***************************************************************************)
(* Token Service: itsdangerous URLSafeTimedSerializer as used by app.py.   *)
(* A token is payload.timestamp.signature; the signature is the MAC of     *)
(* (payload, timestamp) under a key, modelled as the record of what was    *)
(* signed and with which key.                                              *)
(***************************************************************************)
Sign(key, payload, ts) == [k |-> key, p |-> payload, t |-> ts]

dumps(payload, ts) == [payload |-> payload, ts |-> ts, mac |-> Sign(AUTH_SECRET, payload, ts)]

\* the mutant: the age is checked before the signature
LoadsAgeFirst(token, max_age, clock) ==
    IF clock - token.ts > max_age
    THEN [exc |-> "SignatureExpired", payload |-> token.payload]
    ELSE IF token.mac # Sign(AUTH_SECRET, token.payload, token.ts)
    THEN [exc |-> "BadSignature", payload |-> token.payload]
    ELSE [exc |-> "", payload |-> token.payload]

\* the mutant: one failure kind for every rejected token
LoadsOneFailure(token, max_age, clock) ==
    IF token.mac # Sign(AUTH_SECRET, token.payload, token.ts) \/ clock - token.ts > max_age
    THEN [exc |-> "BadSignature", payload |-> token.payload]
    ELSE [exc |-> "", payload |-> token.payload]

\* the mutant: the signature covers the timestamp only, not the payload
LoadsPayloadUnsigned(token, max_age, clock) ==
    IF token.mac.k # AUTH_SECRET \/ token.mac.t # token.ts
    THEN [exc |-> "BadSignature", payload |-> token.payload]
    ELSE IF clock - token.ts > max_age
    THEN [exc |-> "SignatureExpired", payload |-> token.payload]
    ELSE [exc |-> "", payload |-> token.payload]

\* _AUTH.loads(token, max_age): signature first, then age
loads(token, max_age, clock) ==
    IF token.mac # Sign(AUTH_SECRET, token.payload, token.ts)
    THEN [exc |-> "BadSignature", payload |-> token.payload]
    ELSE IF clock - token.ts > max_age
    THEN [exc |-> "SignatureExpired", payload |-> token.payload]
    ELSE [exc |-> "", payload |-> token.payload]

NoPayload == [uid |-> <<>>, e |-> <<>>, u |-> <<>>, r |-> ""]

\* a bearer string that is no serializer output at all
GarbageToken == [payload |-> NoPayload, ts |-> 0, mac |-> Sign("", NoPayload, 0)]

BearerPrefix == <<"b", "e", "a", "r", "e", "r", " ">>

\* The Authorization header is authz.pre followed by the token authz.tok (if any);
\* an absent header is the empty one.
_get_bearer_token(authz) ==
    LET auth == LStrip(IF authz.tok = <<>> THEN RStrip(authz.pre) ELSE authz.pre)
    IN  IF auth = <<>> /\ authz.tok = <<>> THEN <<>>
        ELSE IF ~ StartsWith(Lower(auth), BearerPrefix) THEN <<>>
        ELSE LET rest == LStrip(SubSeq(auth, Len(BearerPrefix) + 1, Len(auth)))
             IN  IF rest # <<>> THEN <<GarbageToken>> ELSE authz.tok

abort(code) == [status |-> code, ctx |-> <<>>]

\* the mutant: the claims check is skipped when no role is required
RequireAuthNoClaimCheck(req, required_role, clock) ==
    LET token == _get_bearer_token(req.authz)
    IN  IF token = <<>> THEN abort(401)
        ELSE LET res == loads(token[1], AUTH_TOKEN_TTL_SECONDS, clock)
                 payload == res.payload
             IN  IF res.exc # "" THEN abort(401)
                 ELSE IF required_role # "" /\ (payload.uid = <<>> \/ payload.r \notin {"admin", "user"})
                 THEN abort(401)
                 ELSE IF required_role # "" /\ payload.r # required_role THEN abort(403)
                 ELSE [status |-> 200,
                       ctx |-> <<[user_id |-> IF payload.uid = <<>> THEN 0 ELSE payload.uid[1],
                                  email |-> payload.e,
                                  username |-> IF payload.u # <<>> THEN payload.u ELSE payload.e,
                                  role |-> payload.r]>>]

\* the mutant: 401 and 403 swapped
RequireAuthSwapped(req, required_role, clock) ==
    LET token == _get_bearer_token(req.authz)
    IN  IF token = <<>> THEN abort(403)
        ELSE LET res == loads(token[1], AUTH_TOKEN_TTL_SECONDS, clock)
                 payload == res.payload
             IN  IF res.exc # "" THEN abort(401)
                 ELSE IF payload.uid = <<>> \/ payload.r \notin {"admin", "user"} THEN abort(401)
                 ELSE IF required_role # "" /\ payload.r # required_role THEN abort(401)
                 ELSE [status |-> 200,
                       ctx |-> <<[user_id |-> payload.uid[1],
                                  email |-> payload.e,
                                  username |-> IF payload.u # <<>> THEN payload.u ELSE payload.e,
                                  role |-> payload.r]>>]

\* the mutant: the role is read from the account's row, and an account that is
\* gone is refused
RequireAuthFromStore(req, required_role, clock) ==
    LET token == _get_bearer_token(req.authz)
    IN  IF token = <<>> THEN abort(401)
        ELSE LET res == loads(token[1], AUTH_TOKEN_TTL_SECONDS, clock)
                 payload == res.payload
                 rows == {i \in 1..Len(users) : payload.uid = <<users[i].id>>}
             IN  IF res.exc # "" \/ rows = {} THEN abort(401)
                 ELSE LET role == users[CHOOSE i \in rows : TRUE].role
                      IN  IF role \notin {"admin", "user"} THEN abort(401)
                          ELSE IF required_role # "" /\ role # required_role THEN abort(403)
                          ELSE [status |-> 200,
                                ctx |-> <<[user_id |-> payload.uid[1], email |-> payload.e,
                                           username |-> IF payload.u # <<>> THEN payload.u
                                                        ELSE payload.e,
                                           role |-> role]>>]

\* _require_auth(required_role): the context, or abort(401/403).
\* required_role "" stands for None (and for the empty string: both are falsy).
_require_auth(req, required_role, clock) ==
    LET token == _get_bearer_token(req.authz)
    IN  IF token = <<>> THEN abort(401)
        ELSE LET res == loads(token[1], AUTH_TOKEN_TTL_SECONDS, clock)
                 payload == res.payload
                 user_id == payload.uid
                 email == payload.e
                 username == IF payload.u # <<>> THEN payload.u ELSE email
                 role == payload.r
             IN  IF res.exc = "SignatureExpired" THEN abort(401)
                 ELSE IF res.exc = "BadSignature" THEN abort(401)
                 ELSE IF user_id = <<>> \/ role \notin {"admin", "user"} THEN abort(401)
                 ELSE IF required_role # "" /\ role # required_role THEN abort(403)
                 ELSE [status |-> 200,
                       ctx |-> <<[user_id |-> user_id[1], email |-> email,
                                  username |-> username, role |-> role]>>]

\* the mutant: every comparison succeeds
CompareDigestAlways(a, b) == "True"

\* hmac.compare_digest on two str: TypeError unless both are ASCII
compare_digest(a, b) ==
    IF ~ IsAscii(a) \/ ~ IsAscii(b) THEN "TypeError" ELSE IF a = b THEN "True" ELSE "False"

\* the mutant: any X-ADMIN-TOKEN header passes
IsAdminRequestAnyHeader(req, clock) ==
    IF req.xadmin # <<>> THEN "True"
    ELSE IF _require_auth(req, "admin", clock).status = 200 THEN "True" ELSE "False"

\* the mutant: the legacy comparison accepts a prefix of the secret
IsAdminRequestPrefix(req, clock) ==
    IF ADMIN_TOKEN # <<>> /\ req.xadmin # <<>> /\ StartsWith(ADMIN_TOKEN, req.xadmin) THEN "True"
    ELSE IF _require_auth(req, "admin", clock).status = 200 THEN "True" ELSE "False"

\* _is_admin_request(): "True", "False", or the TypeError compare_digest raises
\* (the call is outside the try block)
_is_admin_request(req, clock) ==
    LET header_token == req.xadmin
        legacy == IF ADMIN_TOKEN # <<>> /\ header_token # <<>>
                  THEN compare_digest(header_token, ADMIN_TOKEN) ELSE "False"
    IN  IF legacy = "TypeError" THEN "TypeError"
        ELSE IF legacy = "True" THEN "True"
        ELSE IF _require_auth(req, "admin", clock).status = 200 THEN "True" ELSE "False"

(***************************************************************************)
(* SpecAuth: the authorization policy as a function of the request, the    *)
(* configured secrets and the clock.                                       *)
(***************************************************************************)
MaxHeaderLen == 2

\* the configured legacy secret: unset (the default), or a two-character one
AdminTokenConfigs == {<<>>, <<"s", "k">>}

LegacyHeaders == SeqsUpTo({"s", "k", "U+00E9"}, MaxHeaderLen)

AuthPayloads ==
    [uid : {<<>>, <<1>>},
     e : {<<>>, <<"a", "@", "x">>},
     u : {<<>>, <<"a">>},
     r : {"admin", "user", "Admin", "root", ""}]

IssueTimes == {0, 1}

AuthClock == {1, AUTH_TOKEN_TTL_SECONDS, AUTH_TOKEN_TTL_SECONDS + 1, AUTH_TOKEN_TTL_SECONDS + 2}

\* a token as issued, the same re-signed with another key, and the same with the
\* role claim rewritten under the old signature
TokensOf(p, ts) ==
    {dumps(p, ts), [payload |-> p, ts |-> ts, mac |-> Sign("attacker-key", p, ts)]}
    \cup {[payload |-> [p EXCEPT !.r = "admin"], ts |-> ts, mac |-> Sign(AUTH_SECRET, p, ts)]}

AuthTokens == UNION {TokensOf(p, ts) : p \in AuthPayloads, ts \in IssueTimes}

AuthPrefixes ==
    { <<"B", "e", "a", "r", "e", "r", " ">>,
      <<"b", "e", "a", "r", "e", "r", " ">>,
      <<" ", "B", "E", "A", "R", "E", "R", " ", " ">>,
      <<"B", "e", "a", "r", "e", "r", " ", "x">>,
      <<"B", "e", "a", "r", "e", "r">>,
      <<"B", "a", "s", "i", "c", " ">>,
      <<>> }

AuthHeaders ==
    {[pre |-> p, tok |-> <<>>] : p \in AuthPrefixes}
    \cup {[pre |-> p, tok |-> <<t>>] : p \in AuthPrefixes, t \in AuthTokens}

RequiredRoles == {"", "admin", "user"}

\* SpecAuth starts with a request waiting to be answered; the call answers it.
AuthCalls ==
    {[op |-> "call_require_auth", req |-> [authz |-> a, xadmin |-> <<>>],
      required_role |-> rr, out |-> <<>>] : a \in AuthHeaders, rr \in RequiredRoles}
    \cup
    {[op |-> "call_is_admin_request", req |-> [authz |-> a, xadmin |-> x],
      required_role |-> "admin", out |-> <<>>] :
        a \in {h \in AuthHeaders : h.tok # <<>> =>
                    h.tok[1].payload.u = <<>> /\ h.tok[1].payload.e = <<>>},
        x \in LegacyHeaders}

\* the server signs with its own clock: a correctly signed token is not from the future
ClockAllows(call, t) ==
    LET tok == call.req.authz.tok
    IN  tok # <<>> /\ loads(tok[1], AUTH_TOKEN_TTL_SECONDS, t).exc # "BadSignature"
            => tok[1].ts <= t

AuthInit ==
    /\ ADMIN_TOKEN \in AdminTokenConfigs
    /\ now \in AuthClock
    /\ last \in AuthCalls
    /\ ClockAllows(last, now)
    /\ schema_ready = FALSE
    /\ issued = {}
    /\ MODEL = "none"
    /\ DbEmpty
    /\ ThreadsIdle

CallRequireAuth ==
    /\ last.op = "call_require_auth"
    /\ last' = [last EXCEPT !.op = "require_auth",
                            !.out = <<_require_auth(last.req, last.required_role, now)>>]
    /\ UNCHANGED <<ADMIN_TOKEN, now, schema_ready, issued, MODEL, dbVars, threadVars>>

CallIsAdminRequest ==
    /\ last.op = "call_is_admin_request"
    /\ last' = [last EXCEPT !.op = "is_admin_request",
                            !.out = <<_is_admin_request(last.req, now)>>]
    /\ UNCHANGED <<ADMIN_TOKEN, now, schema_ready, issued, MODEL, dbVars, threadVars>>

NextAuth == CallRequireAuth \/ CallIsAdminRequest

SpecAuth == AuthInit /\ [][NextAuth]_vars

(***************************************************************************)
(* Claims about the authorization policy (checked under SpecAuth)          *)
(***************************************************************************)
\* The claims of a token are valid: a user_id, and a role of the closed set
ValidClaims(p) == p.uid # <<>> /\ p.r \in {"admin", "user"}

CorrectlySigned(tok) == tok.mac = Sign(AUTH_SECRET, tok.payload, tok.ts)

Unexpired(tok, clock) == clock - tok.ts <= AUTH_TOKEN_TTL_SECONDS

IdentityOf(p) ==
    [user_id |-> p.uid[1], email |-> p.e,
     username |-> IF p.u # <<>> THEN p.u ELSE p.e, role |-> p.r]

\* C1: _require_auth(minRole) answers 401 when the request carries no bearer token,
\* 401 when the token is expired or badly signed, 403 when the token is valid (signed,
\* unexpired, valid claims) and its role differs from a non-empty minRole, and the
\* identity context of the claims otherwise; so a missing token is never answered 403
\* and a valid wrong-role token never 401.
C1_RequireAuthOutcome ==
    last.op = "require_auth" =>
        LET tok == _get_bearer_token(last.req.authz)
            out == last.out[1]
            rr == last.required_role
        IN  /\ tok = <<>> => out = abort(401)
            /\ tok # <<>> /\ ~ CorrectlySigned(tok[1]) => out = abort(401)
            /\ tok # <<>> /\ ~ Unexpired(tok[1], now) => out = abort(401)
            /\ tok # <<>> /\ CorrectlySigned(tok[1]) /\ Unexpired(tok[1], now)
                 /\ ValidClaims(tok[1].payload)
                 => IF rr # "" /\ tok[1].payload.r # rr
                    THEN out = abort(403)
                    ELSE out = [status |-> 200, ctx |-> <<IdentityOf(tok[1].payload)>>]

\* C1 witness: a valid user token met a requirement of admin and was answered 403
C1_Witness ==
    /\ last.op = "require_auth"
    /\ last.required_role = "admin"
    /\ last.req.authz.tok # <<>>
    /\ CorrectlySigned(last.req.authz.tok[1])
    /\ last.req.authz.tok[1].payload.r = "user"
    /\ last.out[1].status = 403

\* C2: a correctly signed, unexpired token whose role is not exactly user or admin, or
\* whose user_id is missing, is answered 401 whatever role is required (none included),
\* and no context ever carries a role outside {user, admin}.
C2_BadClaimsRejected ==
    last.op = "require_auth" =>
        LET tok == _get_bearer_token(last.req.authz)
            out == last.out[1]
        IN  /\ tok # <<>> /\ CorrectlySigned(tok[1]) /\ Unexpired(tok[1], now)
                 /\ ~ ValidClaims(tok[1].payload)
                 => out = abort(401)
            /\ out.ctx # <<>> => out.ctx[1].role \in {"user", "admin"}

\* C2 witness: a signed, fresh token with role "root" and a user_id, no role required,
\* answered 401
C2_Witness ==
    /\ last.op = "require_auth"
    /\ last.required_role = ""
    /\ last.req.authz.tok # <<>>
    /\ _get_bearer_token(last.req.authz) = last.req.authz.tok
    /\ CorrectlySigned(last.req.authz.tok[1])
    /\ Unexpired(last.req.authz.tok[1], now)
    /\ last.req.authz.tok[1].payload.r = "root"
    /\ last.req.authz.tok[1].payload.uid # <<>>
    /\ last.out[1].status = 401

\* the bearer path of _is_admin_request
BearerAdmin(req, clock) == _require_auth(req, "admin", clock).status = 200

\* C3 as claimed: a request whose X-ADMIN-TOKEN header equals the configured secret
\* passes _is_admin_request even with no bearer token, and a header that differs from
\* the secret does not pass through the legacy path.
C3_LegacyHeaderAsClaimed ==
    last.op = "is_admin_request" =>
        /\ last.req.xadmin = ADMIN_TOKEN => last.out[1] = "True"
        /\ last.req.xadmin # ADMIN_TOKEN /\ last.out[1] = "True" => BearerAdmin(last.req, now)

\* C3 amended: a request whose X-ADMIN-TOKEN header equals a non-empty configured
\* secret passes _is_admin_request even with no bearer token; with the secret unset (the
\* default, empty) no header passes through the legacy path; and a header that differs
\* from the secret (a proper prefix or suffix included) does not pass through it.
C3_LegacyHeader ==
    last.op = "is_admin_request" =>
        /\ last.req.xadmin = ADMIN_TOKEN /\ ADMIN_TOKEN # <<>> => last.out[1] = "True"
        /\ ADMIN_TOKEN = <<>> /\ last.out[1] = "True" => BearerAdmin(last.req, now)
        /\ last.req.xadmin # ADMIN_TOKEN /\ last.out[1] = "True" => BearerAdmin(last.req, now)

\* C3 witness: the configured secret alone, without any Authorization header, passed
C3_Witness ==
    /\ last.op = "is_admin_request"
    /\ ADMIN_TOKEN # <<>>
    /\ last.req.xadmin = ADMIN_TOKEN
    /\ last.req.authz = [pre |-> <<>>, tok |-> <<>>]
    /\ last.out[1] = "True"

\* C4 as claimed: _is_admin_request returns true if and only if the legacy header
\* matches the configured secret (a non-empty match) or _require_auth("admin") succeeds;
\* a valid non-admin bearer token without a matching header, no credentials at all,
\* and an empty header against an empty secret are non-admin.
C4_AdminIffAsClaimed ==
    last.op = "is_admin_request" =>
        /\ last.out[1] = "True"
             <=> \/ (last.req.xadmin # <<>> /\ last.req.xadmin = ADMIN_TOKEN)
                 \/ BearerAdmin(last.req, now)
        /\ ~ BearerAdmin(last.req, now) /\ last.req.xadmin # ADMIN_TOKEN => last.out[1] # "True"
        /\ ~ BearerAdmin(last.req, now) /\ last.req.xadmin = <<>> => last.out[1] # "True"

(***************************************************************************)
(* Credential store: rows, configured defaults, bootstrap (db.py)          *)
(***************************************************************************)
ADMIN_USERNAME == <<"a", "d", "m", "i", "n">>
ADMIN_PASSWORD == <<"a", "d", "m", "i", "n", "1", "2", "3">>
USER_USERNAME == <<"u", "s", "e", "r">>
USER_PASSWORD == <<"u", "s", "e", "r", "1", "2", "3">>

HasAt(s) == \E i \in 1..Len(s) : s[i] = "@"

\* init_db's local helper
_default_email(u) ==
    LET v == Strip(u) IN IF HasAt(v) THEN v ELSE v \o <<"@", "l", "o", "c", "a", "l">>

\* bcrypt.hashpw with a fresh salt: a scheme-tagged hash that verifies exactly its password
_hash_password(password) == [scheme |-> "bcrypt", pw |-> password]

\* the two INSERT statements of the bootstrap block, in order
BootstrapRows ==
    << [email |-> _default_email(ADMIN_USERNAME), username |-> ADMIN_USERNAME,
        password_hash |-> _hash_password(ADMIN_PASSWORD), role |-> "admin",
        can_delete_own_logs |-> TRUE],
       [email |-> _default_email(USER_USERNAME), username |-> USER_USERNAME,
        password_hash |-> _hash_password(USER_PASSWORD), role |-> "user",
        can_delete_own_logs |-> FALSE] >>

\* the mutant: the users table has no UNIQUE index
UniqueOkNoIndex(U, row) == TRUE

\* the UNIQUE indexes of the users table, for a row about to be added to table U
UniqueOk(U, row) ==
    \A i \in 1..Len(U) : U[i].email # row.email /\ U[i].username # row.username

\* INSERT: AUTO_INCREMENT gives the row the next id
InsertUser(U, row) ==
    Append(U, [id |-> Len(U) + 1, email |-> row.email, username |-> row.username,
               password_hash |-> row.password_hash, role |-> row.role,
               can_delete_own_logs |-> row.can_delete_own_logs])

RECURSIVE InsertAll(_, _)
InsertAll(U, rows) ==
    IF rows = <<>> THEN U ELSE InsertAll(InsertUser(U, Head(rows)), Tail(rows))

RECURSIVE AllUnique(_, _)
AllUnique(U, rows) ==
    IF rows = <<>> THEN TRUE
    ELSE UniqueOk(U, Head(rows)) /\ AllUnique(InsertUser(U, Head(rows)), Tail(rows))

(***************************************************************************)
(* SpecInit: threads of one process calling init_db (db.py 112-282).       *)
(* Store failures are injected at the connection, the DDL and the commit.  *)
(***************************************************************************)
MaxFaults == 1

\* threading.Lock: free
LockAlwaysFree(t) == TRUE

LockFree(t) == schema_lock = 0

\* the mutant: the lock stays with its holder
ReleaseNever(t) == UNCHANGED schema_lock

\* leaving the `with _schema_lock` block, on return and on exception alike
Release(t) == schema_lock' = IF schema_lock = t THEN 0 ELSE schema_lock

InitFrame == UNCHANGED <<ADMIN_TOKEN, now, last, perms, logs, next_log_id, issued, MODEL, conn>>

\* line 114: the unlocked check of the flag
InitCall(t) ==
    /\ pc[t] = "idle"
    /\ saw_ready' = [saw_ready EXCEPT ![t] = schema_ready]
    /\ pc' = [pc EXCEPT ![t] = IF schema_ready THEN "returned" ELSE "lock_wait"]
    /\ UNCHANGED <<schema_ready, schema_lock, users, txn, user_count, took_lock,
                   boot_runs, boot_commits, faults>>
    /\ InitFrame

\* line 116: with _schema_lock
InitAcquire(t) ==
    /\ pc[t] = "lock_wait"
    /\ LockFree(t)
    /\ schema_lock' = t
    /\ took_lock' = [took_lock EXCEPT ![t] = TRUE]
    /\ pc' = [pc EXCEPT ![t] = "check"]
    /\ UNCHANGED <<schema_ready, users, txn, user_count, saw_ready,
                   boot_runs, boot_commits, faults>>
    /\ InitFrame

\* lines 117-118: the check under the lock
InitRecheck(t) ==
    /\ pc[t] = "check"
    /\ IF schema_ready
       THEN pc' = [pc EXCEPT ![t] = "returned"] /\ Release(t)
       ELSE pc' = [pc EXCEPT ![t] = "connect"] /\ UNCHANGED schema_lock
    /\ UNCHANGED <<schema_ready, users, txn, user_count, saw_ready, took_lock,
                   boot_runs, boot_commits, faults>>
    /\ InitFrame

\* line 119: get_connection returns
InitConnect(t) ==
    /\ pc[t] = "connect"
    /\ pc' = [pc EXCEPT ![t] = "ddl"]
    /\ txn' = [txn EXCEPT ![t] = <<>>]
    /\ UNCHANGED <<schema_ready, schema_lock, users, user_count, saw_ready, took_lock,
                   boot_runs, boot_commits, faults>>
    /\ InitFrame

\* lines 120-259: CREATE TABLE IF NOT EXISTS, column migrations, indexes
InitDdl(t) ==
    /\ pc[t] = "ddl"
    /\ pc' = [pc EXCEPT ![t] = "count"]
    /\ UNCHANGED <<schema_ready, schema_lock, users, txn, user_count, saw_ready, took_lock,
                   boot_runs, boot_commits, faults>>
    /\ InitFrame

\* lines 262-263: SELECT COUNT(*) FROM users
InitCount(t) ==
    /\ pc[t] = "count"
    /\ user_count' = [user_count EXCEPT ![t] = Len(users)]
    /\ pc' = [pc EXCEPT ![t] = "bootstrap"]
    /\ UNCHANGED <<schema_ready, schema_lock, users, txn, saw_ready, took_lock,
                   boot_runs, boot_commits, faults>>
    /\ InitFrame

\* lines 264-273: the bootstrap block, its first INSERT (the administrator)
InitBootstrap(t) ==
    /\ pc[t] = "bootstrap"
    /\ IF user_count[t] = 0
       THEN /\ txn' = [txn EXCEPT ![t] = <<BootstrapRows[1]>>]
            /\ boot_runs' = boot_runs + 1
            /\ pc' = [pc EXCEPT ![t] = "bootstrap_user"]
       ELSE /\ UNCHANGED <<txn, boot_runs>>
            /\ pc' = [pc EXCEPT ![t] = "commit"]
    /\ UNCHANGED <<schema_ready, schema_lock, users, user_count, saw_ready, took_lock,
                   boot_commits, faults>>
    /\ InitFrame

\* lines 274-277: the second INSERT (the standard user), same transaction
InitBootstrapUser(t) ==
    /\ pc[t] = "bootstrap_user"
    /\ txn' = [txn EXCEPT ![t] = Append(txn[t], BootstrapRows[2])]
    /\ pc' = [pc EXCEPT ![t] = "commit"]
    /\ UNCHANGED <<schema_ready, schema_lock, users, user_count, saw_ready, took_lock,
                   boot_runs, boot_commits, faults>>
    /\ InitFrame

\* line 278: conn.commit()
InitCommit(t) ==
    /\ pc[t] = "commit"
    /\ AllUnique(users, txn[t])
    /\ users' = InsertAll(users, txn[t])
    /\ boot_commits' = boot_commits + (IF txn[t] # <<>> THEN 1 ELSE 0)
    /\ txn' = [txn EXCEPT ![t] = <<>>]
    /\ pc' = [pc EXCEPT ![t] = "set_flag"]
    /\ UNCHANGED <<schema_ready, schema_lock, user_count, saw_ready, took_lock,
                   boot_runs, faults>>
    /\ InitFrame

\* line 279: _schema_ready = True
InitSetFlag(t) ==
    /\ pc[t] = "set_flag"
    /\ schema_ready' = TRUE
    /\ pc' = [pc EXCEPT ![t] = "finally"]
    /\ UNCHANGED <<schema_lock, users, txn, user_count, saw_ready, took_lock,
                   boot_runs, boot_commits, faults>>
    /\ InitFrame

\* lines 280-282 and the end of the with block: close, release, return
InitFinally(t) ==
    /\ pc[t] = "finally"
    /\ Release(t)
    /\ pc' = [pc EXCEPT ![t] = "returned"]
    /\ UNCHANGED <<schema_ready, users, txn, user_count, saw_ready, took_lock,
                   boot_runs, boot_commits, faults>>
    /\ InitFrame

\* the store fails under the call: get_connection gives up (line 110), a statement
\* raises, or commit raises (also on a duplicate key). The open transaction is rolled
\* back when the connection closes, the lock is released, the exception propagates.
InitRaise(t) ==
    /\ pc[t] \in {"connect", "ddl", "count", "bootstrap", "bootstrap_user", "commit"}
    /\ \/ faults < MaxFaults /\ faults' = faults + 1
       \/ pc[t] = "commit" /\ ~ AllUnique(users, txn[t]) /\ UNCHANGED faults
    /\ txn' = [txn EXCEPT ![t] = <<>>]
    /\ Release(t)
    /\ pc' = [pc EXCEPT ![t] = "raised"]
    /\ UNCHANGED <<schema_ready, users, user_count, saw_ready, took_lock,
                   boot_runs, boot_commits>>
    /\ InitFrame

\* the thread's call is over; it may call init_db again
InitAgain(t) ==
    /\ pc[t] \in {"returned", "raised"}
    /\ pc' = [pc EXCEPT ![t] = "idle"]
    /\ took_lock' = [took_lock EXCEPT ![t] = FALSE]
    /\ saw_ready' = [saw_ready EXCEPT ![t] = FALSE]
    /\ UNCHANGED <<schema_ready, schema_lock, users, txn, user_count,
                   boot_runs, boot_commits, faults>>
    /\ InitFrame

InitDbInit ==
    /\ ADMIN_TOKEN = <<>>
    /\ now = 0
    /\ last = [op |-> "none"]
    /\ schema_ready = FALSE
    /\ issued = {}
    /\ MODEL = "none"
    /\ DbEmpty
    /\ ThreadsIdle

NextInit ==
    \E t \in Threads :
        \/ InitCall(t)
        \/ InitAcquire(t)
        \/ InitRecheck(t)
        \/ InitConnect(t)
        \/ InitDdl(t)
        \/ InitCount(t)
        \/ InitBootstrap(t)
        \/ InitBootstrapUser(t)
        \/ InitCommit(t)
        \/ InitSetFlag(t)
        \/ InitFinally(t)
        \/ InitRaise(t)
        \/ InitAgain(t)

SpecInit == InitDbInit /\ [][NextInit]_vars

(***************************************************************************)
(* Claims about the bootstrap (checked under SpecInit)                     *)
(***************************************************************************)
Admins(U) == {i \in 1..Len(U) : U[i].role = "admin"}

OneAdminOneUser(U) ==
    /\ Len(U) = 2
    /\ Cardinality(Admins(U)) = 1
    /\ Cardinality({i \in 1..Len(U) : U[i].role = "user"}) = 1

\* C8: threads of one process call init_db concurrently against an empty users table.
\* A transaction holding the bootstrap rows is committed at most once; as long as the
\* store has not failed under a call the bootstrap insert block is executed at most
\* once; whenever a call has returned the table holds exactly one admin and one
\* standard user; and a call that found the flag set on arrival returns without having
\* taken the lock.
C8_BootstrapAtMostOnce ==
    /\ boot_commits <= 1
    /\ faults = 0 => boot_runs <= 1
    /\ \A t \in Threads : pc[t] = "returned" => OneAdminOneUser(users)
    /\ \A t \in Threads : pc[t] = "returned" /\ saw_ready[t] => ~ took_lock[t]
    /\ schema_ready => OneAdminOneUser(users)

\* C8 witness: every thread has returned, all of them arrived before the flag was set
\* and went through the lock, no store failure, and the block ran once
C8_Witness ==
    /\ \A t \in Threads : pc[t] = "returned" /\ took_lock[t] /\ ~ saw_ready[t]
    /\ faults = 0
    /\ boot_runs = 1
    /\ OneAdminOneUser(users)

(***************************************************************************)
(* Identity resolver and data access (db.py)                               *)
(***************************************************************************)
Digits == <<"0", "1", "2", "3", "4", "5", "6", "7", "8", "9">>

\* "U+00B2" stands for SUPERSCRIPT TWO: a digit for str.isdigit(), not for int()
IsDigit(c) == (\E d \in 1..Len(Digits) : Digits[d] = c) \/ c = "U+00B2"

\* int(s) raises ValueError on a digit string that is not a decimal literal
IntRaises(s) == \E i \in 1..Len(s) : s[i] = "U+00B2"

\* str.isdigit(): non-empty and all digits
IsDigitStr(s) == s # <<>> /\ \A i \in 1..Len(s) : IsDigit(s[i])

DigitVal(c) == (CHOOSE d \in 1..Len(Digits) : Digits[d] = c) - 1

\* int(s) for a digit string
RECURSIVE ToInt(_)
ToInt(s) == IF s = <<>> THEN 0 ELSE 10 * ToInt(SubSeq(s, 1, Len(s) - 1)) + DigitVal(s[Len(s)])

\* str(n) for an int
RECURSIVE NatToStr(_)
NatToStr(n) == IF n < 10 THEN <<Digits[n + 1]>> ELSE Append(NatToStr(n \div 10), Digits[(n % 10) + 1])

ToStr(n) == IF n < 0 THEN <<"-">> \o NatToStr(0 - n) ELSE NatToStr(n)

\* A caller-supplied reference: an int (a token's user_id, an <int:...> route) or a str
IntRef(n) == [kind |-> "int", n |-> n, s |-> ToStr(n)]
StrRef(s) == [kind |-> "str", n |-> 0, s |-> s]

\* str(identifier or "").strip()
RefText(ref) == IF ref.kind = "int" /\ ref.n = 0 THEN <<>> ELSE Strip(ref.s)

\* SELECT ... WHERE id=%s ; fetchone
get_user_by_id(U, user_id) == IF user_id \in 1..Len(U) THEN <<U[user_id]>> ELSE <<>>

FirstMatch(U, ids) == IF ids = {} THEN <<>> ELSE <<U[CHOOSE i \in ids : \A j \in ids : i <= j]>>

\* SELECT ... WHERE username=%s ; fetchone
get_user(U, username) == FirstMatch(U, {i \in 1..Len(U) : U[i].username = username})

\* SELECT ... WHERE email=%s with the argument stripped and lowercased ; fetchone
get_user_by_email(U, email) ==
    FirstMatch(U, {i \in 1..Len(U) : U[i].email = Lower(Strip(email))})

\* _resolve_user: dispatch on the shape of the reference
_resolve_user(U, ref) ==
    LET s == RefText(ref)
    IN  IF s = <<>> THEN <<>>
        ELSE IF ref.kind = "int" THEN get_user_by_id(U, ref.n)
        ELSE IF IsDigitStr(s) THEN get_user_by_id(U, ToInt(s))
        ELSE IF HasAt(s) THEN get_user_by_email(U, Lower(s))
        ELSE get_user(U, s)

\* user.get("username") or user.get("email")
MirrorKey(user) == IF user.username # <<>> THEN user.username ELSE user.email

\* the mutant: the mirror row wins whenever there is one for the reference
GetDelegationMirrorFirst(U, P, ref) ==
    LET user == _resolve_user(U, ref)
        username == IF user # <<>> THEN MirrorKey(user[1]) ELSE RefText(ref)
    IN  IF username \in DOMAIN P THEN P[username]
        ELSE IF user # <<>> THEN user[1].can_delete_own_logs ELSE FALSE

\* get_user_can_delete_own on users table U and mirror P
get_user_can_delete_own(U, P, ref) ==
    LET user == _resolve_user(U, ref)
    IN  IF user # <<>> THEN user[1].can_delete_own_logs
        ELSE LET username == RefText(ref)
             IN  IF username \in DOMAIN P THEN P[username] ELSE FALSE

\* _verify_password: a bcrypt or a legacy (werkzeug) hash verifies its own password
_is_bcrypt_hash(h) == h.scheme = "bcrypt"

_verify_password(h, password) == h.scheme # "" /\ h.pw = password

\* set_user_password on table U (UPDATE ... WHERE id / WHERE username)
set_user_password(U, ref, password) ==
    [i \in 1..Len(U) |->
        IF (IF ref.kind = "int" \/ IsDigitStr(ref.s) THEN U[i].id = (IF ref.kind = "int" THEN ref.n ELSE ToInt(ref.s))
            ELSE U[i].username = ref.s)
        THEN [U[i] EXCEPT !.password_hash = _hash_password(password)]
        ELSE U[i]]

\* the mutant: any non-empty password is accepted
VerifyNoPasswordCheck(U, login0, password, upgrade) ==
    LET login == Strip(login0)
        user == IF HasAt(login) THEN get_user_by_email(U, Lower(login)) ELSE get_user(U, login)
    IN  [user |-> user, users |-> U, writes |-> 0]

\* the mutant: a failed upgrade of the hash refuses the login
VerifyUpgradeRequired(U, login0, password, upgrade) ==
    LET login == Strip(login0)
        user == IF HasAt(login) THEN get_user_by_email(U, Lower(login)) ELSE get_user(U, login)
        none == [user |-> <<>>, users |-> U, writes |-> 0]
    IN  IF user = <<>> THEN none
        ELSE IF user[1].password_hash.scheme = "" THEN none
        ELSE IF ~ _verify_password(user[1].password_hash, password) THEN none
        ELSE IF _is_bcrypt_hash(user[1].password_hash) THEN [none EXCEPT !.user = user]
        ELSE IF upgrade # "ok" THEN none
        ELSE LET U2 == set_user_password(U, IntRef(user[1].id), password)
             IN  [user |-> <<U2[user[1].id]>>, users |-> U2, writes |-> 1]

\* the mutant: every verified login rewrites the stored hash
VerifyAlwaysRehash(U, login0, password, upgrade) ==
    LET login == Strip(login0)
        user == IF HasAt(login) THEN get_user_by_email(U, Lower(login)) ELSE get_user(U, login)
        none == [user |-> <<>>, users |-> U, writes |-> 0]
    IN  IF user = <<>> THEN none
        ELSE IF user[1].password_hash.scheme = "" THEN none
        ELSE IF ~ _verify_password(user[1].password_hash, password) THEN none
        ELSE LET U2 == set_user_password(U, IntRef(user[1].id), password)
             IN  [user |-> <<U2[user[1].id]>>, users |-> U2, writes |-> 1]

\* what can happen to the in-place upgrade of a legacy hash: it succeeds,
\* set_user_password raises before its commit, or the UPDATE commits and the
\* row cannot be read back
UpgradeOutcomes == {"ok", "write_fails", "reread_fails"}

\* verify_user_password: the user returned (<<>> for None), the table afterwards
\* and the number of UPDATE statements committed.  Whatever the upgrade raises
\* is swallowed by except Exception: pass.
verify_user_password(U, login0, password, upgrade) ==
    LET login == Strip(login0)
        user == IF HasAt(login) THEN get_user_by_email(U, Lower(login)) ELSE get_user(U, login)
        none == [user |-> <<>>, users |-> U, writes |-> 0]
    IN  IF user = <<>> THEN none
        ELSE IF user[1].password_hash.scheme = "" THEN none
        ELSE IF ~ _verify_password(user[1].password_hash, password) THEN none
        ELSE IF _is_bcrypt_hash(user[1].password_hash) THEN [none EXCEPT !.user = user]
        ELSE IF upgrade = "write_fails" THEN [none EXCEPT !.user = user]
        ELSE LET U2 == set_user_password(U, IntRef(user[1].id), password)
             IN  IF upgrade = "reread_fails" THEN [user |-> user, users |-> U2, writes |-> 1]
                 ELSE [user |-> <<U2[user[1].id]>>, users |-> U2, writes |-> 1]

\* create_user: the row INSERTed (role as given, delegation off)
NewUserRow(email, password, role, username) ==
    LET email_norm == Lower(Strip(email))
        username_val == IF Strip(username) # <<>> THEN Strip(username) ELSE email_norm
    IN  [email |-> email_norm, username |-> username_val,
         password_hash |-> _hash_password(password), role |-> role,
         can_delete_own_logs |-> FALSE]

\* set_user_role on table U (UPDATE ... WHERE id / WHERE username)
set_user_role(U, ref, role) ==
    [i \in 1..Len(U) |->
        IF (IF ref.kind = "int" \/ IsDigitStr(ref.s) THEN U[i].id = (IF ref.kind = "int" THEN ref.n ELSE ToInt(ref.s))
            ELSE U[i].username = ref.s)
        THEN [U[i] EXCEPT !.role = role]
        ELSE U[i]]

(***************************************************************************)
(* Delegation write and the prediction log (db.py)                         *)
(***************************************************************************)
\* the mutant: every statement commits as it is executed
AutocommitOn == TRUE

\* _connect: cfg["autocommit"]
autocommit == FALSE

\* the mutant: INSERT without the ON DUPLICATE KEY UPDATE clause
UpsertInsertOnly(P, username, can_delete) ==
    [k \in DOMAIN P \cup {username} |-> IF k \in DOMAIN P THEN P[k] ELSE can_delete]

\* INSERT ... ON DUPLICATE KEY UPDATE on the mirror table
Upsert(P, username, can_delete) ==
    [k \in DOMAIN P \cup {username} |-> IF k = username THEN can_delete ELSE P[k]]

\* the mutant: a reference that resolves to no user is recorded in the mirror
\* under its own text and the call succeeds
SetDelegationMirrorOnly(U, P, ref, can_delete, fault) ==
    LET user == _resolve_user(U, ref)
        username == IF user = <<>> THEN RefText(ref) ELSE MirrorKey(user[1])
        after == IF user = <<>> THEN U
                 ELSE [U EXCEPT ![user[1].id].can_delete_own_logs = can_delete]
    IN  IF fault = "none"
        THEN [users |-> after, perms |-> Upsert(P, username, can_delete), exc |-> ""]
        ELSE [users |-> U, perms |-> P, exc |-> "Error"]

\* set_user_can_delete_own: the committed tables afterwards and the exception raised.
\* fault says where the store fails: "none", "after_update" (the upsert fails),
\* "at_commit" (the commit fails).  A connection closed without commit rolls back.
set_user_can_delete_own(U, P, ref, can_delete, fault) ==
    LET user == _resolve_user(U, ref)
    IN  IF user = <<>> THEN [users |-> U, perms |-> P, exc |-> "ValueError"]
        ELSE LET username == MirrorKey(user[1])
                 before == [users |-> U, perms |-> P]
                 updated == [users |-> [U EXCEPT ![user[1].id].can_delete_own_logs = can_delete],
                             perms |-> P]
                 upserted == [users |-> updated.users, perms |-> Upsert(P, username, can_delete)]
                 kept == IF fault = "after_update" THEN (IF autocommit THEN updated ELSE before)
                         ELSE IF fault = "at_commit" THEN (IF autocommit THEN upserted ELSE before)
                         ELSE upserted
             IN  [users |-> kept.users, perms |-> kept.perms,
                  exc |-> IF fault = "none" THEN "" ELSE "Error"]

Anonymous == <<"a", "n", "o", "n", "y", "m", "o", "u", "s">>

\* insert_prediction: the row added (only the ownership columns are modelled)
LogRow(id, owner_username, owner_user_id) ==
    [id |-> id, owner_user_id |-> owner_user_id, owner_username |-> owner_username]

\* the result row built from a table row: row[2] or "anonymous"
RowOut(r) == [r EXCEPT !.owner_username = IF @ = <<>> THEN Anonymous ELSE @]

\* ORDER BY id DESC
RECURSIVE OrderDesc(_)
OrderDesc(S) ==
    IF S = {} THEN <<>>
    ELSE LET m == CHOOSE r \in S : \A q \in S : q.id <= r.id
         IN  <<m>> \o OrderDesc(S \ {m})

\* the mutant: LIMIT keeps the oldest rows
LimitOldest(rows, n) == SubSeq(rows, IF n < Len(rows) THEN Len(rows) - n + 1 ELSE 1, Len(rows))

\* LIMIT n (n >= 0)
Limit(rows, n) == SubSeq(rows, 1, IF n < Len(rows) THEN n ELSE Len(rows))

Results(S, limit) == LET rows == Limit(OrderDesc(S), limit) IN [i \in 1..Len(rows) |-> RowOut(rows[i])]

\* the alias list built by get_recent_for_user_id and delete_logs_for_user_id
legacy_usernames(user) ==
    IF user = <<>> THEN <<>>
    ELSE LET a == IF user[1].email # <<>> THEN <<user[1].email>> ELSE <<>>
         IN  IF user[1].username # <<>> /\ (\A i \in 1..Len(a) : a[i] # user[1].username)
             THEN Append(a, user[1].username) ELSE a

\* WHERE owner_user_id=%s OR owner_username IN (first, last)  /  WHERE owner_user_id=%s
OwnedRows(U, L, user_id) ==
    LET names == legacy_usernames(get_user_by_id(U, user_id))
    IN  IF names # <<>>
        THEN {r \in L : r.owner_user_id = <<user_id>> \/ r.owner_username \in {names[1], names[Len(names)]}}
        ELSE {r \in L : r.owner_user_id = <<user_id>>}

\* the mutant: the query forgets the aliases
GetRecentForUserIdNoAlias(U, L, user_id, limit) ==
    Results({r \in L : r.owner_user_id = <<user_id>>}, limit)

get_recent_for_user_id(U, L, user_id, limit) == Results(OwnedRows(U, L, user_id), limit)

get_recent_for_user(L, username, limit) == Results({r \in L : r.owner_username = username}, limit)

get_recent(L, limit) == Results(L, limit)

\* the mutant: the DELETE forgets the aliases
DeleteLogsForUserIdNoAlias(U, L, user_id) == L \ {r \in L : r.owner_user_id = <<user_id>>}

\* delete_logs_for_user_id: the rows that remain
delete_logs_for_user_id(U, L, user_id) == L \ OwnedRows(U, L, user_id)

(***************************************************************************)
(* Spec: the HTTP handlers over the credential store and the log store.    *)
(* A request is handled atomically; whether the store is reachable is      *)
(* chosen per request.                                                     *)
(***************************************************************************)
MaxUsers == 3
MaxLogs == 2
MaxTokens == 2

\* request.args.get("limit", 50)
DEFAULT_LIMIT == 50

\* auth_register: len(password) < 8
MIN_PASSWORD_LENGTH == 8

\* init_db on a reachable store: schema, and the bootstrap when no user exists
InitDbUsers ==
    IF schema_ready \/ users # <<>> THEN users ELSE InsertAll(<<>>, BootstrapRows)

Resp(op, status, ctx, rows, arg) ==
    [op |-> op, status |-> status, ctx |-> ctx, rows |-> rows, arg |-> arg]

SvcFrame == UNCHANGED <<ADMIN_TOKEN, MODEL, threadVars>>

NoAuthz == [pre |-> <<>>, tok |-> <<>>]

Bearer(t) == [pre |-> <<"B", "e", "a", "r", "e", "r", " ">>, tok |-> <<t>>]

\* the mutant: the "u" claim is always the email
MakeTokenEmailAsUser(user_id, email, role, username, ts) ==
    dumps([uid |-> <<user_id>>, e |-> email, u |-> email, r |-> role], ts)

_make_token(user_id, email, role, username, ts) ==
    dumps([uid |-> <<user_id>>, e |-> email,
           u |-> IF username # <<>> THEN username ELSE email, r |-> role], ts)

\* a token for the bootstrap administrator signed with a key that is not the server's
ForgedToken ==
    LET p == [uid |-> <<1>>, e |-> _default_email(ADMIN_USERNAME), u |-> ADMIN_USERNAME, r |-> "admin"]
    IN  [payload |-> p, ts |-> 0, mac |-> Sign("guess", p, 0)]

\* the requests a client can send: no credentials, the legacy header, or a bearer token
ClientRequests ==
    {[authz |-> NoAuthz, xadmin |-> x] : x \in {<<>>, <<"s", "k">>}}
      \cup {[authz |-> Bearer(t), xadmin |-> <<>>] : t \in issued \cup {ForgedToken}}

Password8 == <<"p", "a", "s", "s", "w", "o", "r", "d">>

LoginInputs ==
    { <<ADMIN_USERNAME, ADMIN_PASSWORD>>, <<USER_USERNAME, USER_PASSWORD>>,
      <<USER_USERNAME, Password8>>, <<<<"e", "v", "e">>, Password8>>,
      <<<<"n", "@", "x">>, Password8>>, <<<<>>, Password8>> }

\* auth_login on the table U that init_db leaves: the status, the token (if any),
\* the fields of the body that are modelled, and the table afterwards.  With the
\* store unreachable the environment administrator credentials are compared by
\* hmac.compare_digest, whose TypeError on a non-ASCII value is not caught.
auth_login(U, login, password, store_ok, upgrade, clock) ==
    LET fail(code) == [status |-> code, token |-> <<>>, body |-> <<>>, users |-> U,
                       writes |-> 0]
    IN  IF login = <<>> \/ password = <<>> THEN fail(400)
        ELSE IF store_ok
        THEN LET v == verify_user_password(U, login, password, upgrade)
             IN  IF v.user = <<>> THEN [fail(401) EXCEPT !.users = v.users, !.writes = v.writes]
                 ELSE LET u == v.user[1]
                          role == IF u.role # "" THEN u.role ELSE "user"
                      IN  [status |-> 200,
                           token |-> <<_make_token(u.id, IF u.email # <<>> THEN u.email ELSE login,
                                                   role,
                                                   IF u.username # <<>> THEN u.username ELSE login,
                                                   clock)>>,
                           body |-> [role |-> role,
                                     can_delete_own_logs |->
                                         (role = "admin" \/ u.can_delete_own_logs)],
                           users |-> v.users, writes |-> v.writes]
        ELSE IF compare_digest(login, ADMIN_USERNAME) = "TypeError" THEN fail(500)
        ELSE IF compare_digest(login, ADMIN_USERNAME) = "False" THEN fail(401)
        ELSE IF compare_digest(password, ADMIN_PASSWORD) = "TypeError" THEN fail(500)
        ELSE IF compare_digest(password, ADMIN_PASSWORD) = "False" THEN fail(401)
        ELSE [status |-> 200,
              token |-> <<_make_token(0 - 1, _default_email(ADMIN_USERNAME), "admin",
                                      ADMIN_USERNAME, clock)>>,
              body |-> [role |-> "admin", can_delete_own_logs |-> TRUE],
              users |-> U, writes |-> 0]

\* POST /auth/login (in the services below every stored hash is a bcrypt hash, so
\* the upgrade of a legacy hash never runs)
Login(login, password, store_ok) ==
    LET r == auth_login(InitDbUsers, login, password, store_ok, "ok", now)
    IN  /\ last' = Resp("login", r.status, <<>>, <<>>, r.body)
        /\ issued' = issued \cup {r.token[k] : k \in 1..Len(r.token)}
        /\ IF login # <<>> /\ password # <<>> /\ store_ok
           THEN users' = r.users /\ schema_ready' = TRUE
           ELSE UNCHANGED <<users, schema_ready>>
        /\ Cardinality(issued') <= MaxTokens
        /\ UNCHANGED <<now, perms, logs, next_log_id>>
        /\ SvcFrame

\* POST /auth/register
Register(email0, password, store_ok) ==
    LET email == Lower(Strip(email0))
    IN  /\ IF email = <<>> \/ ~ HasAt(email)
           THEN /\ last' = Resp("register", 400, <<>>, <<>>, <<>>)
                /\ UNCHANGED <<users, schema_ready>>
           ELSE IF password = <<>> \/ Len(password) < MIN_PASSWORD_LENGTH
           THEN /\ last' = Resp("register", 400, <<>>, <<>>, <<>>)
                /\ UNCHANGED <<users, schema_ready>>
           ELSE IF ~ store_ok
           THEN /\ last' = Resp("register", 400, <<>>, <<>>, <<>>)
                /\ UNCHANGED <<users, schema_ready>>
           ELSE LET U == InitDbUsers
                    row == NewUserRow(email, password, "user", email)
                IN  /\ schema_ready' = TRUE
                    /\ IF get_user_by_email(U, email) # <<>>
                       THEN /\ users' = U
                            /\ last' = Resp("register", 409, <<>>, <<>>, <<>>)
                       ELSE IF ~ UniqueOk(U, row)
                       THEN /\ users' = U
                            /\ last' = Resp("register", 400, <<>>, <<>>, <<>>)
                       ELSE /\ users' = InsertUser(U, row)
                            /\ last' = Resp("register", 201, <<>>, <<>>, <<>>)
        /\ Len(users') <= MaxUsers
        /\ UNCHANGED <<now, perms, logs, next_log_id, issued>>
        /\ SvcFrame

\* the JSON bodies an administrator posts to /admin/users
CreateInputs ==
    { [email |-> <<"u", "s", "e", "r">>, username |-> <<"e", "v", "e">>, password |-> Password8, role |-> "user"],
      [email |-> <<>>, username |-> <<"e", "v", "e">>, password |-> Password8, role |-> "admin"],
      [email |-> <<"e", "@", "x">>, username |-> <<>>, password |-> Password8, role |-> "root"] }

\* the mutant: every role sent is read as "user"
StripRoleAsUser(r) == "user"

\* str.strip() on a role sent by a client (roles are atomic strings here; these
\* are the padded spellings the requests below use)
StripRole(r) ==
    IF r = " admin " THEN "admin" ELSE IF r = " user" THEN "user" ELSE IF r = " " THEN "" ELSE r

\* POST /admin/users
AdminCreateUser(req, inp, store_ok) ==
    LET adm == _is_admin_request(req, now)
        email == Strip(inp.email)
        username == Strip(inp.username)
        role == LET r == StripRole(IF inp.role # "" THEN inp.role ELSE "user")
                IN  IF r # "" THEN r ELSE "user"
        email_to_use == Strip(IF email # <<>> THEN email ELSE username)
    IN  /\ IF adm # "True"
           THEN /\ last' = Resp("admin_create_user", IF adm = "TypeError" THEN 500 ELSE 401, <<>>, <<>>, [role |-> inp.role])
                /\ UNCHANGED <<users, schema_ready>>
           ELSE IF role \notin {"user", "admin"}
           THEN /\ last' = Resp("admin_create_user", 400, <<>>, <<>>, [role |-> inp.role])
                /\ UNCHANGED <<users, schema_ready>>
           ELSE IF (email = <<>> /\ username = <<>>) \/ inp.password = <<>>
           THEN /\ last' = Resp("admin_create_user", 400, <<>>, <<>>, [role |-> inp.role])
                /\ UNCHANGED <<users, schema_ready>>
           ELSE IF ~ store_ok
           THEN /\ last' = Resp("admin_create_user", 400, <<>>, <<>>, [role |-> inp.role])
                /\ UNCHANGED <<users, schema_ready>>
           ELSE LET U == InitDbUsers
                    row == NewUserRow(email_to_use, inp.password, role, username)
                IN  /\ schema_ready' = TRUE
                    /\ IF UniqueOk(U, row)
                       THEN /\ users' = InsertUser(U, row)
                            /\ last' = Resp("admin_create_user", 200, <<>>, <<>>, [role |-> inp.role])
                       ELSE /\ users' = U
                            /\ last' = Resp("admin_create_user", 400, <<>>, <<>>, [role |-> inp.role])
        /\ Len(users') <= MaxUsers
        /\ UNCHANGED <<now, perms, logs, next_log_id, issued>>
        /\ SvcFrame

\* the first position of character c in s, or 0
RECURSIVE Find(_, _)
Find(s, c) ==
    IF s = <<>> THEN 0
    ELSE IF Head(s) = c THEN 1
    ELSE LET k == Find(Tail(s), c) IN IF k = 0 THEN 0 ELSE k + 1

\* urlsplit: the netloc is what follows "//" (after the scheme, if any) up to the
\* next "/", "?" or "#".  A scheme is a letter followed by scheme characters
\* (the letters that occur in the urls drawn below).
UrlNetloc(url) ==
    LET i == Find(url, ":")
        has_scheme == i > 1 /\ \A k \in 1..(i - 1) : url[k] \in {"a", "h"}
        rest == IF has_scheme THEN SubSeq(url, i + 1, Len(url)) ELSE url
        after == SubSeq(rest, 3, Len(rest))
        stops == {k \in 1..Len(after) : after[k] \in {"/", "?", "#"}}
        end == IF stops = {} THEN Len(after)
               ELSE (CHOOSE k \in stops : \A j \in stops : k <= j) - 1
    IN  IF StartsWith(rest, <<"/", "/">>) THEN SubSeq(after, 1, end) ELSE <<>>

\* extract_features(url): urlparse raises ValueError("Invalid IPv6 URL") when the
\* netloc holds one square bracket without the other; nothing in extract_features
\* or in predict catches it.
extract_features_raises(url) ==
    LET netloc == UrlNetloc(Strip(url))
    IN  (Find(netloc, "[") > 0) # (Find(netloc, "]") > 0)

\* the mutant: a request with no model loaded is answered without being logged
PredictLogsNoModelNever(model, verdict) == model = "pipeline" /\ verdict # "raises"

\* predict: does the handler reach insert_prediction?  Not when the model is
\* incompatible and not when its predict call raises: both return 500 first.
PredictLogs(model, verdict) ==
    model = "none" \/ (model = "pipeline" /\ verdict # "raises")

\* the mutant: no request is attached to its caller
PredictOwnedNever(req, clock) == FALSE

\* predict: is the row attached to the caller?  _require_auth's abort is an
\* exception, caught by the handler's except Exception.
PredictOwned(req, clock) ==
    _get_bearer_token(req.authz) # <<>> /\ _require_auth(req, "", clock).status = 200

\* POST /predict with JSON body `body` (<<>>: no "url" key, <<url>> otherwise).
\* verdict is what the loaded model answers: "phishing", "legitimate" or "raises".
PredictRequest(req, body, store_ok, verdict) ==
    LET r == _require_auth(req, "", now)
        owned == PredictOwned(req, now)
        owner_username == IF ~ owned THEN Anonymous
                          ELSE IF r.ctx[1].email # <<>> THEN r.ctx[1].email
                          ELSE IF r.ctx[1].username # <<>> THEN r.ctx[1].username
                          ELSE Anonymous
        owner_user_id == IF owned THEN <<r.ctx[1].user_id>> ELSE <<>>
        crashes == body # <<>> /\ extract_features_raises(body[1])
        attempts == body # <<>> /\ ~ crashes /\ PredictLogs(MODEL, verdict)
        inserts == attempts /\ store_ok
        status == IF body = <<>> THEN 400
                  ELSE IF crashes THEN 500
                  ELSE IF MODEL = "none" THEN 200
                  ELSE IF MODEL = "incompatible" \/ verdict = "raises" THEN 500
                  ELSE 200
        prediction == IF status # 200 THEN "error"
                      ELSE IF MODEL = "none" THEN "model_not_loaded"
                      ELSE verdict
        logged == IF ~ attempts THEN <<>>
                  ELSE IF MODEL = "none" THEN <<-1>>
                  ELSE IF verdict = "phishing" THEN <<1>> ELSE <<0>>
    IN  /\ next_log_id <= MaxLogs
        /\ IF inserts
           THEN /\ users' = InitDbUsers
                /\ schema_ready' = TRUE
                /\ logs' = logs \cup {LogRow(next_log_id, owner_username, owner_user_id)}
                /\ next_log_id' = next_log_id + 1
           ELSE UNCHANGED <<users, schema_ready, logs, next_log_id>>
        /\ last' = Resp("predict", status, <<>>, <<>>,
                        [req |-> req, body |-> body, model |-> MODEL,
                         prediction |-> prediction, logged |-> logged,
                         log_id |-> IF inserts THEN <<next_log_id>> ELSE <<>>])
        /\ UNCHANGED <<now, perms, issued>>
        /\ SvcFrame

OrdinaryUrl == <<"h", ":", "/", "/", "a">>

\* POST /predict with an ordinary url, in the services where no model is loaded
Predict(req, store_ok) == PredictRequest(req, <<OrdinaryUrl>>, store_ok, "legitimate")

\* the query strings of GET /logs: user_id, username, limit
LogQueries ==
    { [user_id |-> <<>>, username |-> <<>>, limit |-> DEFAULT_LIMIT],
      [user_id |-> <<"1">>, username |-> <<>>, limit |-> DEFAULT_LIMIT],
      [user_id |-> <<>>, username |-> <<"u", "s", "e", "r">>, limit |-> DEFAULT_LIMIT],
      [user_id |-> <<>>, username |-> <<>>, limit |-> 1],
      [user_id |-> <<"x">>, username |-> <<>>, limit |-> DEFAULT_LIMIT] }

\* GET /logs
GetLogs(req, q, store_ok) ==
    LET r == _require_auth(req, "", now)
        user_id_filter == Strip(q.user_id)
        username_filter == Strip(q.username)
        U == InitDbUsers
    IN  /\ IF r.status # 200
           THEN /\ last' = Resp("get_logs", r.status, <<>>, <<>>, <<>>)
                /\ UNCHANGED <<users, schema_ready>>
           ELSE IF r.ctx[1].role = "admin" /\ user_id_filter # <<>> /\ ~ IsDigitStr(user_id_filter)
           THEN /\ last' = Resp("get_logs", 503, r.ctx, <<>>, <<>>)
                /\ UNCHANGED <<users, schema_ready>>
           ELSE IF ~ store_ok
           THEN /\ last' = Resp("get_logs", 503, r.ctx, <<>>, <<>>)
                /\ UNCHANGED <<users, schema_ready>>
           ELSE /\ users' = U
                /\ schema_ready' = TRUE
                /\ last' = Resp("get_logs", 200, r.ctx,
                                IF r.ctx[1].role = "admin"
                                THEN IF user_id_filter # <<>>
                                     THEN get_recent_for_user_id(U, logs, ToInt(user_id_filter), q.limit)
                                     ELSE IF username_filter # <<>>
                                     THEN get_recent_for_user(logs, username_filter, q.limit)
                                     ELSE get_recent(logs, q.limit)
                                ELSE get_recent_for_user_id(U, logs, r.ctx[1].user_id, q.limit),
                                <<>>)
        /\ UNCHANGED <<now, perms, logs, next_log_id, issued>>
        /\ SvcFrame

\* the mutant: only administrators may delete, the delegation is not consulted
MayDeleteOwnAdminOnly(ctx, U, P) == ctx.role = "admin"

\* the mutant: the delegation test with its negation dropped
MayDeleteOwnInverted(ctx, U, P) ==
    ctx.role = "admin" \/ ~ get_user_can_delete_own(U, P, IntRef(ctx.user_id))

\* delete_my_logs: not (role != "admin" and not get_user_can_delete_own(user_id))
MayDeleteOwn(ctx, U, P) ==
    ctx.role = "admin" \/ get_user_can_delete_own(U, P, IntRef(ctx.user_id))

\* DELETE /logs/mine.  fault: "none"; "down" (the store is unreachable for the whole
\* request); "delete" (the store fails after the delegation lookup)
DeleteMine(req, fault) ==
    LET r == _require_auth(req, "", now)
        U == InitDbUsers
    IN  /\ IF r.status # 200
           THEN /\ last' = Resp("delete_mine", r.status, <<>>, <<>>, fault)
                /\ UNCHANGED <<users, schema_ready, logs>>
           ELSE IF fault = "down"
           THEN /\ last' = Resp("delete_mine", IF r.ctx[1].role # "admin" THEN 500 ELSE 503,
                                r.ctx, <<>>, fault)
                /\ UNCHANGED <<users, schema_ready, logs>>
           ELSE IF ~ MayDeleteOwn(r.ctx[1], U, perms)
           THEN /\ last' = Resp("delete_mine", 403, r.ctx, <<>>, fault)
                /\ users' = U
                /\ schema_ready' = TRUE
                /\ UNCHANGED logs
           ELSE IF fault = "delete"
           THEN /\ last' = Resp("delete_mine", 503, r.ctx, <<>>, fault)
                /\ IF r.ctx[1].role # "admin"
                   THEN users' = U /\ schema_ready' = TRUE
                   ELSE UNCHANGED <<users, schema_ready>>
                /\ UNCHANGED logs
           ELSE /\ last' = Resp("delete_mine", 200, r.ctx,
                                <<Cardinality(OwnedRows(U, logs, r.ctx[1].user_id))>>, fault)
                /\ users' = U
                /\ schema_ready' = TRUE
                /\ logs' = delete_logs_for_user_id(U, logs, r.ctx[1].user_id)
        /\ UNCHANGED <<now, perms, next_log_id, issued>>
        /\ SvcFrame

\* POST /admin/users/<username>/permissions.  fault: "none", "down" (init_db raises),
\* "after_update", "at_commit".  The store call is outside any try block.
AdminSetUserPermissions(req, username, can_delete, fault) ==
    LET adm == _is_admin_request(req, now)
        res == set_user_can_delete_own(InitDbUsers, perms, StrRef(username), can_delete, fault)
    IN  /\ IF adm # "True"
           THEN /\ last' = Resp("set_permissions", IF adm = "TypeError" THEN 500 ELSE 401,
                                <<>>, <<>>, [username |-> username, can_delete |-> can_delete, fault |-> fault, exc |-> ""])
                /\ UNCHANGED <<users, perms, schema_ready>>
           ELSE IF fault = "down"
           THEN /\ last' = Resp("set_permissions", 500, <<>>, <<>>, [username |-> username, can_delete |-> can_delete, fault |-> fault,
                                 exc |-> "Error"])
                /\ UNCHANGED <<users, perms, schema_ready>>
           ELSE /\ users' = res.users
                /\ perms' = res.perms
                /\ schema_ready' = TRUE
                /\ last' = Resp("set_permissions", IF res.exc = "" THEN 200 ELSE 500, <<>>, <<>>,
                                [username |-> username, can_delete |-> can_delete, fault |-> fault,
                                 exc |-> res.exc])
        /\ UNCHANGED <<now, logs, next_log_id, issued>>
        /\ SvcFrame

\* the role-change handlers: _is_admin_request, the role check, then set_user_role.
\* store is "ok", "down", or "reread_fails" (the by-id route reads the user back
\* after the UPDATE committed, inside the same try).
ChangeRole(op, req, ref, role0, store) ==
    LET adm == _is_admin_request(req, now)
        role == StripRole(role0)
        arg == [ref |-> ref, role |-> role0, req |-> req]
    IN  /\ IF adm # "True"
           THEN /\ last' = Resp(op, IF adm = "TypeError" THEN 500 ELSE 401, <<>>, <<>>, arg)
                /\ UNCHANGED <<users, schema_ready>>
           ELSE IF role \notin {"user", "admin"}
           THEN /\ last' = Resp(op, 400, <<>>, <<>>, arg)
                /\ UNCHANGED <<users, schema_ready>>
           ELSE IF store = "down" \/ (ref.kind = "str" /\ IsDigitStr(ref.s) /\ IntRaises(ref.s))
           THEN /\ last' = Resp(op, 503, <<>>, <<>>, arg)
                /\ UNCHANGED <<users, schema_ready>>
           ELSE /\ users' = set_user_role(InitDbUsers, ref, role)
                /\ schema_ready' = TRUE
                /\ last' = Resp(op, IF store = "reread_fails" THEN 503 ELSE 200, <<>>, <<>>, arg)
        /\ UNCHANGED <<now, perms, logs, next_log_id, issued>>
        /\ SvcFrame

\* POST /admin/users/<username>/role
AdminChangeRole(req, username, role, store_ok) ==
    ChangeRole("change_role", req, StrRef(username), role, IF store_ok THEN "ok" ELSE "down")

\* POST /admin/users/by-id/<int:user_id>/role
AdminChangeRoleById(req, user_id, role, store) ==
    ChangeRole("change_role_by_id", req, IntRef(user_id), role, store)

\* POST /admin/users/<username>/password
AdminChangePassword(req, username, password, store_ok) ==
    LET adm == _is_admin_request(req, now)
        ref == StrRef(username)
        arg == [ref |-> ref, password |-> password, req |-> req]
    IN  /\ IF adm # "True"
           THEN /\ last' = Resp("change_password", IF adm = "TypeError" THEN 500 ELSE 401,
                                <<>>, <<>>, arg)
                /\ UNCHANGED <<users, schema_ready>>
           ELSE IF password = <<>>
           THEN /\ last' = Resp("change_password", 400, <<>>, <<>>, arg)
                /\ UNCHANGED <<users, schema_ready>>
           ELSE IF ~ store_ok \/ (IsDigitStr(ref.s) /\ IntRaises(ref.s))
           THEN /\ last' = Resp("change_password", 503, <<>>, <<>>, arg)
                /\ UNCHANGED <<users, schema_ready>>
           ELSE /\ users' = set_user_password(InitDbUsers, ref, password)
                /\ schema_ready' = TRUE
                /\ last' = Resp("change_password", 200, <<>>, <<>>, arg)
        /\ UNCHANGED <<now, perms, logs, next_log_id, issued>>
        /\ SvcFrame

\* clear_logs and delete_logs_for_user: the rows that remain
clear_logs(L) == {}

delete_logs_for_user(L, username) == {r \in L : r.owner_username # username}

\* DELETE /logs with query q: one user's entries by id, one alias's entries, or all
DeleteLogs(req, q, store_ok) ==
    LET adm == _is_admin_request(req, now)
        user_id_filter == Strip(q.user_id)
        username_filter == Strip(q.username)
        U == InitDbUsers
        arg == [req |-> req, q |-> q]
        left == IF user_id_filter # <<>> THEN delete_logs_for_user_id(U, logs, ToInt(user_id_filter))
                ELSE IF username_filter # <<>> THEN delete_logs_for_user(logs, username_filter)
                ELSE clear_logs(logs)
    IN  /\ IF adm # "True"
           THEN /\ last' = Resp("delete_logs", IF adm = "TypeError" THEN 500 ELSE 401,
                                <<>>, <<>>, arg)
                /\ UNCHANGED <<users, schema_ready, logs>>
           ELSE IF \/ ~ store_ok
                   \/ user_id_filter # <<>> /\ (~ IsDigitStr(user_id_filter) \/ IntRaises(user_id_filter))
           THEN /\ last' = Resp("delete_logs", 503, <<>>, <<>>, arg)
                /\ UNCHANGED <<users, schema_ready, logs>>
           ELSE /\ users' = U
                /\ schema_ready' = TRUE
                /\ logs' = left
                /\ last' = Resp("delete_logs", 200, <<>>,
                                <<Cardinality(logs) - Cardinality(left)>>, arg)
        /\ UNCHANGED <<now, perms, next_log_id, issued>>
        /\ SvcFrame

\* GET and DELETE /admin/users/by-id/<int:user_id>/logs; limit is the text of the
\* limit argument (<<>>: absent), converted by int() before the try block
AdminUserLogsById(req, method, user_id, limit, store_ok) ==
    LET adm == _is_admin_request(req, now)
        U == InitDbUsers
        arg == [req |-> req, method |-> method, user_id |-> user_id]
    IN  /\ IF adm # "True"
           THEN /\ last' = Resp("user_logs_by_id", IF adm = "TypeError" THEN 500 ELSE 401,
                                <<>>, <<>>, arg)
                /\ UNCHANGED <<users, schema_ready, logs>>
           ELSE IF limit # <<>> /\ (~ IsDigitStr(limit) \/ IntRaises(limit))
           THEN /\ last' = Resp("user_logs_by_id", 500, <<>>, <<>>, arg)
                /\ UNCHANGED <<users, schema_ready, logs>>
           ELSE IF ~ store_ok
           THEN /\ last' = Resp("user_logs_by_id", 503, <<>>, <<>>, arg)
                /\ UNCHANGED <<users, schema_ready, logs>>
           ELSE IF method = "DELETE"
           THEN /\ users' = U
                /\ schema_ready' = TRUE
                /\ logs' = delete_logs_for_user_id(U, logs, user_id)
                /\ last' = Resp("user_logs_by_id", 200, <<>>,
                                <<Cardinality(OwnedRows(U, logs, user_id))>>, arg)
           ELSE /\ users' = U
                /\ schema_ready' = TRUE
                /\ UNCHANGED logs
                /\ last' = Resp("user_logs_by_id", 200, <<>>,
                                get_recent_for_user_id(U, logs, user_id,
                                    IF limit = <<>> THEN DEFAULT_LIMIT ELSE ToInt(limit)),
                                arg)
        /\ UNCHANGED <<now, perms, next_log_id, issued>>
        /\ SvcFrame

\* GET /admin/users
AdminListUsers(req, store_ok) ==
    LET adm == _is_admin_request(req, now)
    IN  /\ IF adm # "True"
           THEN /\ last' = Resp("list_users", IF adm = "TypeError" THEN 500 ELSE 401,
                                <<>>, <<>>, [req |-> req])
                /\ UNCHANGED <<users, schema_ready>>
           ELSE IF ~ store_ok
           THEN /\ last' = Resp("list_users", 503, <<>>, <<>>, [req |-> req])
                /\ UNCHANGED <<users, schema_ready>>
           ELSE /\ users' = InitDbUsers
                /\ schema_ready' = TRUE
                /\ last' = Resp("list_users", 200, <<>>, InitDbUsers, [req |-> req])
        /\ UNCHANGED <<now, perms, logs, next_log_id, issued>>
        /\ SvcFrame

\* POST /train.  outcome: "trained" (load_model then loads the new pipeline),
\* "error" (train_model returned an error payload) or "raises"
Train(req, outcome) ==
    LET adm == _is_admin_request(req, now)
    IN  /\ IF adm # "True"
           THEN /\ last' = Resp("train", IF adm = "TypeError" THEN 500 ELSE 401,
                                <<>>, <<>>, [req |-> req])
                /\ UNCHANGED MODEL
           ELSE IF outcome = "trained"
           THEN /\ last' = Resp("train", 200, <<>>, <<>>, [req |-> req])
                /\ MODEL' = "pipeline"
           ELSE /\ last' = Resp("train", IF outcome = "error" THEN 400 ELSE 500,
                                <<>>, <<>>, [req |-> req])
                /\ UNCHANGED MODEL
        /\ UNCHANGED <<ADMIN_TOKEN, now, schema_ready, issued, dbVars, threadVars>>

\* log rows an earlier release wrote under an alias, before accounts had numeric ids
LegacyLogs ==
    { {}, {LogRow(1, <<"u", "s", "e", "r">>, <<>>)},
      {LogRow(1, _default_email(USER_USERNAME), <<>>)} }

\* a fresh process in front of a store that holds no account yet
SvcInit ==
    /\ ADMIN_TOKEN \in AdminTokenConfigs
    /\ now = 0
    /\ last = Resp("none", 0, <<>>, <<>>, <<>>)
    /\ schema_ready = FALSE
    /\ issued = {}
    /\ MODEL = "none"
    /\ users = <<>>
    /\ perms = EmptyMap
    /\ logs \in LegacyLogs
    /\ next_log_id = Cardinality(logs) + 1
    /\ ThreadsIdle

(***************************************************************************)
(* SpecLogs: accounts, predictions and the log listing                     *)
(***************************************************************************)
NextLogs ==
    \/ \E in \in LoginInputs, store_ok \in BOOLEAN : Login(in[1], in[2], store_ok)
    \/ \E req \in ClientRequests, inp \in CreateInputs, store_ok \in BOOLEAN :
            AdminCreateUser(req, inp, store_ok)
    \/ \E req \in ClientRequests, store_ok \in BOOLEAN : Predict(req, store_ok)
    \/ \E req \in ClientRequests, q \in LogQueries, store_ok \in BOOLEAN : GetLogs(req, q, store_ok)

SpecLogs == SvcInit /\ [][NextLogs]_vars

(***************************************************************************)
(* SpecDelete: delegation and the deletion of one's own log entries        *)
(***************************************************************************)
PermissionFaults == {"none", "down", "after_update", "at_commit"}

DeleteLogins ==
    { <<ADMIN_USERNAME, ADMIN_PASSWORD>>, <<USER_USERNAME, USER_PASSWORD>>,
      <<USER_USERNAME, Password8>> }

NextDelete ==
    \/ \E in \in DeleteLogins, store_ok \in BOOLEAN : Login(in[1], in[2], store_ok)
    \/ \E req \in ClientRequests, store_ok \in BOOLEAN : Predict(req, store_ok)
    \/ \E req \in ClientRequests, fault \in {"none", "down", "delete"} : DeleteMine(req, fault)
    \/ \E req \in ClientRequests, username \in {USER_USERNAME, <<"9">>}, can_delete \in BOOLEAN,
          fault \in PermissionFaults :
            AdminSetUserPermissions(req, username, can_delete, fault)

SpecDelete == SvcInit /\ [][NextDelete]_vars

(***************************************************************************)
(* SpecUsers: account management                                           *)
(***************************************************************************)
RegisterEmails == {<<"n", "@", "x">>, <<"N", "@", "x", " ">>, <<"n", "x">>}

InitUsers == SvcInit /\ logs = {}

NextUsers ==
    \/ \E password \in {ADMIN_PASSWORD, Password8}, store_ok \in BOOLEAN :
            Login(ADMIN_USERNAME, password, store_ok)
    \/ \E email \in RegisterEmails, password \in {Password8, <<"p", "w">>}, store_ok \in BOOLEAN :
            Register(email, password, store_ok)
    \/ \E req \in ClientRequests, inp \in CreateInputs, store_ok \in BOOLEAN :
            AdminCreateUser(req, inp, store_ok)
    \/ \E req \in ClientRequests, username \in {ADMIN_USERNAME, USER_USERNAME},
          role \in {"user", "admin", "root"}, store_ok \in BOOLEAN :
            AdminChangeRole(req, username, role, store_ok)

SpecUsers == InitUsers /\ [][NextUsers]_vars

(***************************************************************************)
(* Claims about the log listing (checked under SpecLogs)                   *)
(***************************************************************************)
\* the rows of table L that belong to user i of table U: by numeric id, or by an alias
RowsOf(U, L, i) ==
    {r \in L : \/ r.owner_user_id = <<i>>
               \/ r.owner_username = U[i].email
               \/ r.owner_username = U[i].username}

Occurrences(rows, id) == Cardinality({k \in 1..Len(rows) : rows[k].id = id})

\* C6 (as claimed): GET /logs with a non-admin token returns only that user's
\* entries: no returned entry carries another user's id, whatever the query
\* parameters, and a user to whom no row is attributable gets the empty sequence.
C6_OnlyOwnEntries ==
    (last.op = "get_logs" /\ last.status = 200 /\ last.ctx[1].role # "admin") =>
        /\ \A k \in 1..Len(last.rows) :
              last.rows[k].owner_user_id \in {<<>>, <<last.ctx[1].user_id>>}
        /\ (\A r \in logs : r.owner_user_id # <<last.ctx[1].user_id>>
                              /\ r.owner_username \notin {last.ctx[1].email, last.ctx[1].username})
              => last.rows = <<>>

\* C7: for an existing user, get_recent_for_user_id returns every row owned by the
\* numeric id and every row under the user's email or username, each exactly once
\* and nothing else, newest first, within the row limit (50 unless the caller
\* passes another).
C7_OwnershipMerge ==
    \A i \in 1..Len(users) : \A limit \in {1, DEFAULT_LIMIT} :
        LET res == get_recent_for_user_id(users, logs, i, limit)
            want == RowsOf(users, logs, i)
        IN  /\ Len(res) = (IF Cardinality(want) < limit THEN Cardinality(want) ELSE limit)
            /\ \A k \in 1..Len(res) : \E r \in want : res[k] = RowOut(r)
            /\ \A k \in 1..Len(res) : Occurrences(res, res[k].id) = 1
            /\ \A k \in 1..(Len(res) - 1) : res[k].id > res[k + 1].id
            /\ Cardinality(want) <= limit => \A r \in want : Occurrences(res, r.id) = 1

\* a user with a row written under an alias before the id existed and a row that
\* matches both the id and the email; the listing holds both
C7_Witness ==
    \E i \in 1..Len(users) : \E r1, r2 \in logs :
        /\ r1.owner_user_id = <<>> /\ r1.owner_username \in {users[i].email, users[i].username}
        /\ r2.owner_user_id = <<i>> /\ r2.owner_username = users[i].email
        /\ Len(get_recent_for_user_id(users, logs, i, DEFAULT_LIMIT)) = 2

(***************************************************************************)
(* Claims about delegation and deletion (checked under SpecDelete)         *)
(***************************************************************************)
\* the delegation flag the store holds for a numeric user id
StoredDelegation(U, P, user_id) ==
    IF user_id \in 1..Len(U) THEN U[user_id].can_delete_own_logs
    ELSE ToStr(user_id) \in DOMAIN P /\ P[ToStr(user_id)]

\* C5: DELETE /logs/mine deletes log rows only if the caller's token role is admin
\* or the caller's stored delegation flag is true; otherwise (the store being
\* reachable) it answers 403 and the log is unchanged.  Without a valid token
\* nothing is deleted either.
C5_DeleteMineOnlyIfPermitted ==
    [][ last'.op = "delete_mine" =>
          IF last'.ctx = <<>> THEN logs' = logs
          ELSE LET ctx == last'.ctx[1]
                   permitted == ctx.role = "admin" \/ StoredDelegation(users', perms', ctx.user_id)
               IN  /\ logs' # logs => permitted
                   /\ last'.status = 200 => permitted
                   /\ (~ permitted /\ last'.arg # "down") => (last'.status = 403 /\ logs' = logs)
      ]_vars

\* a caller who owns a row, is no administrator and has no delegation, was refused
C5_Witness ==
    /\ last.op = "delete_mine" /\ last.status = 403
    /\ last.ctx[1].role = "user"
    /\ \E r \in logs : r.owner_user_id = <<last.ctx[1].user_id>>

\* C10: set_user_can_delete_own is atomic across the two tables: whether it
\* completes or fails at any step, no users row has its flag changed without the
\* mirror row of that user holding the same value, the mirror changes only at the
\* key of a user whose flag holds that value, and a failed call changes neither.
C10_DelegationWriteAtomic ==
    [][ last'.op = "set_permissions" =>
          /\ \A i \in 1..Len(users) :
                users'[i].can_delete_own_logs # users[i].can_delete_own_logs
                  => /\ MirrorKey(users'[i]) \in DOMAIN perms'
                     /\ perms'[MirrorKey(users'[i])] = users'[i].can_delete_own_logs
          /\ \A k \in DOMAIN perms' :
                (k \notin DOMAIN perms \/ perms'[k] # perms[k])
                  => \E i \in 1..Len(users') :
                        MirrorKey(users'[i]) = k /\ users'[i].can_delete_own_logs = perms'[k]
          /\ last'.status # 200 =>
                /\ perms' = perms
                /\ \A i \in 1..Len(users) : users'[i] = users[i]
      ]_vars

\* an administrator's call on an existing user failed between the UPDATE and the
\* upsert, and a user without delegation is in the committed table
C10_Witness ==
    /\ last.op = "set_permissions" /\ last.status = 500
    /\ last.arg.fault = "after_update" /\ last.arg.exc = "Error"
    /\ \E i \in 1..Len(users) : users[i].role = "user" /\ ~ users[i].can_delete_own_logs

(***************************************************************************)
(* Claims about account management (checked under SpecUsers)               *)
(***************************************************************************)
\* C9 (as claimed): after bootstrap, in every reachable state the users table
\* holds at least one user with role admin.
C9_AlwaysAnAdmin == (schema_ready \/ users # <<>>) => Admins(users) # {}

(***************************************************************************)
(* SpecPerms: threads inside set_user_can_delete_own, statement by         *)
(* statement.  users and perms hold the committed rows; a thread's         *)
(* uncommitted writes are in txn[t] and the rows they touch stay locked    *)
(* until the transaction ends.                                             *)
(***************************************************************************)
\* the references and values the concurrent callers pass
PermRefs == { USER_USERNAME, <<"2">>, _default_email(ADMIN_USERNAME), <<"9">> }

PermFrame == UNCHANGED <<ADMIN_TOKEN, now, last, logs, next_log_id, issued, MODEL, schema_ready, conn,
                         schema_lock, user_count, saw_ready, took_lock, boot_runs, boot_commits>>

\* the users row id is write-locked by a transaction of another thread
UserRowLocked(t, id) ==
    \E o \in Threads \ {t} :
        /\ pc[o] \in {"upsert", "commit"}
        /\ txn[o] # <<>> /\ txn[o][1].id = id
        /\ ~ autocommit

\* lines 414-418: init_db (the flag is set), _resolve_user, the mirror key
PermCall(t, ref, can_delete) ==
    LET user == _resolve_user(users, StrRef(ref))
    IN  /\ pc[t] = "idle"
        /\ schema_ready
        /\ IF user = <<>>
           THEN /\ pc' = [pc EXCEPT ![t] = "raised"]
                /\ txn' = [txn EXCEPT ![t] = <<>>]
           ELSE /\ pc' = [pc EXCEPT ![t] = "update"]
                /\ txn' = [txn EXCEPT ![t] = <<[id |-> user[1].id, username |-> MirrorKey(user[1]),
                                               can_delete |-> can_delete]>>]
        /\ UNCHANGED <<users, perms, faults>>
        /\ PermFrame

\* lines 422-425: UPDATE users SET can_delete_own_logs=%s WHERE id=%s
PermUpdate(t) ==
    /\ pc[t] = "update"
    /\ ~ UserRowLocked(t, txn[t][1].id)
    /\ users' = IF autocommit
                THEN [users EXCEPT ![txn[t][1].id].can_delete_own_logs = txn[t][1].can_delete]
                ELSE users
    /\ pc' = [pc EXCEPT ![t] = "upsert"]
    /\ UNCHANGED <<perms, txn, faults>>
    /\ PermFrame

\* lines 426-434: INSERT ... ON DUPLICATE KEY UPDATE on the mirror
PermUpsert(t) ==
    /\ pc[t] = "upsert"
    /\ perms' = IF autocommit THEN Upsert(perms, txn[t][1].username, txn[t][1].can_delete) ELSE perms
    /\ pc' = [pc EXCEPT ![t] = "commit"]
    /\ UNCHANGED <<users, txn, faults>>
    /\ PermFrame

\* line 435: conn.commit() makes both writes visible and releases the rows
PermCommit(t) ==
    /\ pc[t] = "commit"
    /\ users' = [users EXCEPT ![txn[t][1].id].can_delete_own_logs = txn[t][1].can_delete]
    /\ perms' = Upsert(perms, txn[t][1].username, txn[t][1].can_delete)
    /\ pc' = [pc EXCEPT ![t] = "returned"]
    /\ UNCHANGED <<txn, faults>>
    /\ PermFrame

\* a statement or the commit raises: lines 436-438 close the connection, which
\* rolls the open transaction back
PermRaise(t) ==
    /\ pc[t] \in {"update", "upsert", "commit"}
    /\ faults < MaxFaults
    /\ faults' = faults + 1
    /\ pc' = [pc EXCEPT ![t] = "raised"]
    /\ txn' = [txn EXCEPT ![t] = <<>>]
    /\ UNCHANGED <<users, perms>>
    /\ PermFrame

\* the call is over; the thread may call again
PermAgain(t) ==
    /\ pc[t] \in {"returned", "raised"}
    /\ pc' = [pc EXCEPT ![t] = "idle"]
    /\ txn' = [txn EXCEPT ![t] = <<>>]
    /\ UNCHANGED <<users, perms, faults>>
    /\ PermFrame

\* a running process in front of a bootstrapped store with an empty mirror
InitPerms ==
    /\ ADMIN_TOKEN = <<>>
    /\ now = 0
    /\ last = [op |-> "none"]
    /\ schema_ready = TRUE
    /\ issued = {}
    /\ MODEL = "none"
    /\ users = InsertAll(<<>>, BootstrapRows)
    /\ perms = EmptyMap
    /\ logs = {}
    /\ next_log_id = 1
    /\ ThreadsIdle

NextPerms ==
    \E t \in Threads :
        \/ \E ref \in PermRefs, can_delete \in BOOLEAN : PermCall(t, ref, can_delete)
        \/ PermUpdate(t)
        \/ PermUpsert(t)
        \/ PermCommit(t)
        \/ PermRaise(t)
        \/ PermAgain(t)

SpecPerms == InitPerms /\ [][NextPerms]_vars

\* C11: after any sequence and any interleaving of set_user_can_delete_own calls,
\* every committed mirror row agrees with the committed users row of the user it
\* is keyed by.
C11_MirrorAgrees ==
    \A k \in DOMAIN perms : \A i \in 1..Len(users) :
        (users[i].username = k \/ (users[i].username = <<>> /\ users[i].email = k))
            => perms[k] = users[i].can_delete_own_logs

\* one call on a user has committed while a call with the other value on the same
\* user waits at its commit
C11_Witness ==
    \E t1, t2 \in Threads :
        /\ pc[t1] = "returned" /\ pc[t2] = "commit"
        /\ txn[t1][1].id = txn[t2][1].id
        /\ txn[t1][1].can_delete # txn[t2][1].can_delete
        /\ txn[t1][1].username \in DOMAIN perms

\* C12: for a non-admin caller with a valid token and a reachable store, DELETE
\* /logs/mine answers 403 (and deletes nothing) while the caller's stored delegation
\* is false and 200 with the non-negative number of rows it deleted while it is true;
\* the delegation of a user becomes the value an administrator's successful
\* permissions call gave it and changes at no other step.
C12_DelegatedDeleteSucceeds ==
    [][ /\ (/\ last'.op = "delete_mine" /\ last'.ctx # <<>>
            /\ last'.ctx[1].role # "admin" /\ last'.arg = "none"
            /\ last'.ctx[1].user_id \in 1..Len(users'))
           => IF users'[last'.ctx[1].user_id].can_delete_own_logs
              THEN /\ last'.status = 200
                   /\ last'.rows[1] >= 0
                   /\ last'.rows[1] = Cardinality(logs) - Cardinality(logs')
              ELSE last'.status = 403 /\ logs' = logs
        /\ (last'.op = "set_permissions" /\ last'.status = 200)
           => LET u == _resolve_user(users', StrRef(last'.arg.username))
              IN  u # <<>> /\ u[1].can_delete_own_logs = last'.arg.can_delete
        /\ \A i \in 1..Len(users) :
              users'[i].can_delete_own_logs # users[i].can_delete_own_logs
                => last'.op = "set_permissions" /\ last'.status = 200
      ]_vars

\* a standard user whose delegation an administrator switched on deleted a row of
\* their own
C12_Witness ==
    /\ last.op = "delete_mine" /\ last.status = 200
    /\ last.ctx[1].role = "user"
    /\ last.ctx[1].user_id \in 1..Len(users)
    /\ users[last.ctx[1].user_id].can_delete_own_logs
    /\ last.rows[1] >= 1

(***************************************************************************)
(* SpecFlag: what the service tells a caller about the delegation          *)
(***************************************************************************)
\* the mutant: /auth/me reports the stored flag to every caller
MeCanDeleteOwnStored(ctx, U, P) == get_user_can_delete_own(U, P, IntRef(ctx.user_id))

\* auth_me: ctx["can_delete_own_logs"]
MeCanDeleteOwn(ctx, U, P) ==
    IF ctx.role = "admin" THEN TRUE ELSE get_user_can_delete_own(U, P, IntRef(ctx.user_id))

\* GET /auth/me.  The delegation lookup of a non-admin caller is outside any try block.
AuthMe(req, store_ok) ==
    LET r == _require_auth(req, "", now)
        U == InitDbUsers
    IN  /\ IF r.status # 200
           THEN /\ last' = Resp("auth_me", r.status, <<>>, <<>>, <<>>)
                /\ UNCHANGED <<users, schema_ready>>
           ELSE IF r.ctx[1].role = "admin"
           THEN /\ last' = Resp("auth_me", 200, r.ctx, <<>>,
                                [can_delete_own_logs |-> MeCanDeleteOwn(r.ctx[1], users, perms)])
                /\ UNCHANGED <<users, schema_ready>>
           ELSE IF ~ store_ok
           THEN /\ last' = Resp("auth_me", 500, r.ctx, <<>>, <<>>)
                /\ UNCHANGED <<users, schema_ready>>
           ELSE /\ last' = Resp("auth_me", 200, r.ctx, <<>>,
                                [can_delete_own_logs |-> MeCanDeleteOwn(r.ctx[1], U, perms)])
                /\ users' = U
                /\ schema_ready' = TRUE
        /\ UNCHANGED <<now, perms, logs, next_log_id, issued>>
        /\ SvcFrame

NextFlag ==
    \/ \E in \in LoginInputs, store_ok \in BOOLEAN : Login(in[1], in[2], store_ok)
    \/ \E email \in RegisterEmails, password \in {Password8, <<"p", "w">>}, store_ok \in BOOLEAN :
            Register(email, password, store_ok)
    \/ \E req \in ClientRequests, inp \in CreateInputs, store_ok \in BOOLEAN :
            AdminCreateUser(req, inp, store_ok)
    \/ \E req \in ClientRequests, store_ok \in BOOLEAN : AuthMe(req, store_ok)
    \/ \E req \in ClientRequests, fault \in {"none", "down", "delete"} : DeleteMine(req, fault)

SpecFlag == InitUsers /\ [][NextFlag]_vars

\* C13: a non-admin user created by registration, by an administrator or by the
\* bootstrap starts with the delegation off; for a caller whose role is admin,
\* login, /auth/me and DELETE /logs/mine answer as if the flag were on whatever
\* the store holds; none of the three writes a stored flag or a mirror row.
C13_DelegationDefault ==
    [][ /\ \A i \in (Len(users) + 1)..Len(users') :
              users'[i].role # "admin" => ~ users'[i].can_delete_own_logs
        /\ (last'.op = "login" /\ last'.status = 200 /\ last'.arg.role = "admin")
              => last'.arg.can_delete_own_logs
        /\ (last'.op = "auth_me" /\ last'.ctx # <<>> /\ last'.ctx[1].role = "admin")
              => last'.status = 200 /\ last'.arg.can_delete_own_logs
        /\ (last'.op = "delete_mine" /\ last'.ctx # <<>> /\ last'.ctx[1].role = "admin"
              /\ last'.arg = "none")
              => last'.status = 200
        /\ last'.op \in {"login", "auth_me", "delete_mine"}
              => /\ perms' = perms
                 /\ \A i \in 1..Len(users) :
                       users'[i].can_delete_own_logs = users[i].can_delete_own_logs
      ]_vars

\* an administrator whose stored flag is off was told by /auth/me that it is on
C13_Witness ==
    /\ last.op = "auth_me" /\ last.status = 200
    /\ last.ctx[1].role = "admin"
    /\ last.ctx[1].user_id \in 1..Len(users)
    /\ ~ users[last.ctx[1].user_id].can_delete_own_logs
    /\ last.arg.can_delete_own_logs

(***************************************************************************)
(* SpecToken: a token is issued, time passes, the token (or an alteration  *)
(* of it made without the secret) is presented, and it is validated.       *)
(***************************************************************************)
TokenUserIds == {-1, 0, 2}

TokenEmails == {<<>>, <<"a", "@", "x">>}

TokenUsernames == {<<>>, <<"a">>}

TokenRoles == {"user", "admin"}

\* seconds between issuing and validating
TokenAges == {0, AUTH_TOKEN_TTL_SECONDS, AUTH_TOKEN_TTL_SECONDS + 1, AUTH_TOKEN_TTL_SECONDS + 2}

Alterations == {"none", "role", "uid", "ts", "mac", "resign"}

OtherRole(r) == IF r = "admin" THEN "user" ELSE "admin"

\* what a holder of token tok can present at time clock without knowing AUTH_SECRET
Alter(tok, kind, clock) ==
    CASE kind = "none" -> tok
      [] kind = "role" -> [tok EXCEPT !.payload.r = OtherRole(@)]
      [] kind = "uid" -> [tok EXCEPT !.payload.uid = <<@[1] + 1>>]
      [] kind = "ts" -> [tok EXCEPT !.ts = clock]
      [] kind = "mac" -> [tok EXCEPT !.mac = Sign("guess", tok.payload, tok.ts)]
      [] kind = "resign" ->
            LET p == [tok.payload EXCEPT !.r = OtherRole(@)]
            IN  [payload |-> p, ts |-> clock, mac |-> Sign("guess", p, clock)]

TokenCalls ==
    {[op |-> "call_make_token", user_id |-> i, email |-> e, username |-> u, role |-> r,
      tok |-> <<>>, sent |-> <<>>, res |-> <<>>, out |-> <<>>] :
        i \in TokenUserIds, e \in TokenEmails, u \in TokenUsernames, r \in TokenRoles}

TokenInit ==
    /\ ADMIN_TOKEN = <<>>
    /\ now \in IssueTimes
    /\ last \in TokenCalls
    /\ schema_ready = FALSE
    /\ issued = {}
    /\ MODEL = "none"
    /\ DbEmpty
    /\ ThreadsIdle

TokenFrame == UNCHANGED <<ADMIN_TOKEN, schema_ready, MODEL, dbVars, threadVars>>

\* _make_token at the server's clock
TokenIssue ==
    /\ last.op = "call_make_token"
    /\ LET tok == _make_token(last.user_id, last.email, last.role, last.username, now)
       IN  /\ issued' = {tok}
           /\ last' = [last EXCEPT !.op = "issued", !.tok = <<tok>>]
    /\ UNCHANGED now
    /\ TokenFrame

\* time passes and the holder sends a request
TokenPresent(age, kind) ==
    /\ last.op = "issued"
    /\ now' = now + age
    /\ last' = [last EXCEPT !.op = "presented", !.sent = <<Alter(last.tok[1], kind, now + age)>>]
    /\ UNCHANGED issued
    /\ TokenFrame

\* _AUTH.loads as _require_auth calls it, and _require_auth(required_role=None)
TokenValidate ==
    /\ last.op = "presented"
    /\ last' = [last EXCEPT
                  !.op = "validated",
                  !.res = <<loads(last.sent[1], AUTH_TOKEN_TTL_SECONDS, now)>>,
                  !.out = <<_require_auth([authz |-> Bearer(last.sent[1]), xadmin |-> <<>>],
                                          "", now)>>]
    /\ UNCHANGED <<now, issued>>
    /\ TokenFrame

NextToken ==
    \/ TokenIssue
    \/ \E age \in TokenAges, kind \in Alterations : TokenPresent(age, kind)
    \/ TokenValidate

SpecToken == TokenInit /\ [][NextToken]_vars

Validated == last.op = "validated"

Untouched == last.sent = last.tok

TokenAge == now - last.tok[1].ts

CorrectMac == last.sent[1].mac = Sign(AUTH_SECRET, last.sent[1].payload, last.sent[1].ts)

\* C15: a correctly signed token validated later than its issue time plus the TTL
\* takes the Expired outcome and is not accepted; the signature is checked
\* first, so a token with a wrong signature takes the Invalid outcome however
\* old it is.
C15_ExpiredNotInvalid ==
    Validated =>
        /\ (Untouched /\ TokenAge > AUTH_TOKEN_TTL_SECONDS)
              => last.res[1].exc = "SignatureExpired" /\ last.out[1].status = 401
        /\ (~ CorrectMac /\ now - last.sent[1].ts > AUTH_TOKEN_TTL_SECONDS)
              => last.res[1].exc = "BadSignature" /\ last.out[1].status = 401

\* a token whose signature is wrong and whose timestamp is older than the TTL
C15_Witness ==
    /\ Validated /\ ~ CorrectMac
    /\ now - last.sent[1].ts = AUTH_TOKEN_TTL_SECONDS + 1
    /\ last.res[1].exc = "BadSignature"

\* C16: a token that differs from the issued one in payload, timestamp or
\* signature is rejected as Invalid, and no context is produced from it.
C16_TamperDetected ==
    (Validated /\ ~ Untouched)
        => /\ last.res[1].exc = "BadSignature"
           /\ last.out[1].status = 401
           /\ last.out[1].ctx = <<>>

\* the role claim of a fresh user token rewritten to admin under the old signature
C16_Witness ==
    /\ Validated /\ TokenAge = 0
    /\ last.role = "user"
    /\ last.sent[1].payload.r = "admin"
    /\ last.sent[1].mac = last.tok[1].mac
    /\ last.out[1].status = 401

DelegTables ==
    {[i \in 1..2 |-> [InsertAll(<<>>, BootstrapRows)[i] EXCEPT
                         !.can_delete_own_logs = IF i = 1 THEN a ELSE b]] : a, b \in BOOLEAN}

\* aliases of the mirror: an account's username, and two that belong to no account
DelegAliases == {USER_USERNAME, <<"g">>, <<"9">>}

\* the mirror table may hold rows written by an older install
DelegMirrors == UNION {[K -> BOOLEAN] : K \in SUBSET DelegAliases}

DelegRefs ==
    {IntRef(0), IntRef(2), IntRef(9)}
      \cup {StrRef(s) : s \in {<<>>, USER_USERNAME, _default_email(USER_USERNAME),
                               <<"2">>, <<"9">>, <<"g">>, <<" ", "g", " ">>}}

DelegInit ==
    /\ ADMIN_TOKEN = <<>>
    /\ now = 0
    /\ schema_ready = FALSE
    /\ issued = {}
    /\ MODEL = "none"
    /\ users \in DelegTables
    /\ perms \in DelegMirrors
    /\ logs = {}
    /\ next_log_id = 1
    /\ last \in {[op |-> "call_get_delegation", ref |-> r, out |-> <<>>] : r \in DelegRefs}
    /\ ThreadsIdle

\* get_user_can_delete_own(ref), init_db included
DelegGet ==
    /\ last.op = "call_get_delegation"
    /\ users' = InitDbUsers
    /\ schema_ready' = TRUE
    /\ last' = [last EXCEPT !.op = "get_delegation",
                            !.out = <<get_user_can_delete_own(InitDbUsers, perms, last.ref)>>]
    /\ UNCHANGED <<ADMIN_TOKEN, now, issued, MODEL, perms, logs, next_log_id, threadVars>>

NextDeleg == DelegGet

SpecDeleg == DelegInit /\ [][NextDeleg]_vars

\* C18: get_user_can_delete_own returns the users-row flag whenever the reference
\* resolves to a user, whatever the mirror holds; when it resolves to no user it
\* returns the mirror value stored under the reference's text, or false when
\* the mirror has no such row.
C18_UsersRowFirst ==
    last.op = "get_delegation" =>
        LET user == _resolve_user(users, last.ref)
            alias == RefText(last.ref)
        IN  IF user # <<>>
            THEN last.out[1] = user[1].can_delete_own_logs
            ELSE last.out[1] = (alias \in DOMAIN perms /\ perms[alias])

\* the reference resolves to a user whose flag is off while the mirror row under
\* that user's name says on
C18_Witness ==
    /\ last.op = "get_delegation"
    /\ _resolve_user(users, last.ref) # <<>>
    /\ ~ _resolve_user(users, last.ref)[1].can_delete_own_logs
    /\ _resolve_user(users, last.ref)[1].username \in DOMAIN perms
    /\ perms[_resolve_user(users, last.ref)[1].username]
    /\ last.out[1] = FALSE

\* the reference of the permissions request that was just answered resolved to no
\* user when the request arrived
Unresolved == _resolve_user(InitDbUsers, StrRef(last'.arg.username)) = <<>>

\* C19: a permissions request whose reference resolves to no user is never
\* answered 200 and leaves the mirror and every users row as they were (the
\* users table is at most initialised by init_db); when the caller is an
\* administrator and the store is reachable, set_user_can_delete_own raises the
\* not-found ValueError and the request ends in 500.
C19_UnknownUserNotFound ==
    [][ (last'.op = "set_permissions" /\ Unresolved)
          => /\ last'.status # 200
             /\ perms' = perms
             /\ users' \in {users, InitDbUsers}
             /\ (last'.status # 401 /\ last'.arg.fault # "down")
                   => last'.arg.exc = "ValueError" /\ last'.status = 500
      ]_vars

\* an administrator's request for an unknown reference ended in the not-found error
C19_Witness ==
    /\ last.op = "set_permissions"
    /\ last.arg.exc = "ValueError"
    /\ last.status = 500
    /\ _resolve_user(users, StrRef(last.arg.username)) = <<>>
    /\ users # <<>>

\* C20 as claimed: after a successful permissions request the mirror holds the
\* value under the resolved user's email whenever the email is not empty, and
\* under the username otherwise.
C20_MirrorKeyedByEmail ==
    [][ (last'.op = "set_permissions" /\ last'.status = 200)
          => LET user == _resolve_user(users', StrRef(last'.arg.username))
                 alias == IF user[1].email # <<>> THEN user[1].email ELSE user[1].username
             IN  /\ user # <<>>
                 /\ alias \in DOMAIN perms'
                 /\ perms'[alias] = last'.arg.can_delete
      ]_vars

(***************************************************************************)
(* SpecResolve: _resolve_user as a function of the users table and the     *)
(* reference.                                                              *)
(***************************************************************************)
\* the lookups _resolve_user performs for ref, in order, when int(s) does not raise
ResolveLookups(ref) ==
    LET s == RefText(ref)
    IN  IF s = <<>> THEN <<>>
        ELSE IF ref.kind = "int" THEN <<[by |-> "id", key |-> ToStr(ref.n)]>>
        ELSE IF IsDigitStr(s) THEN <<[by |-> "id", key |-> ToStr(ToInt(s))]>>
        ELSE IF HasAt(s) THEN <<[by |-> "email", key |-> Lower(s)]>>
        ELSE <<[by |-> "username", key |-> s]>>

\* the bootstrap accounts, alone or with a third account whose username is all
\* digits, or whose username contains an @ and is not its email
ResolveTables ==
    {InsertAll(<<>>, BootstrapRows)}
      \cup {InsertUser(InsertAll(<<>>, BootstrapRows),
                       [email |-> <<"n", "@", "x">>, username |-> u,
                        password_hash |-> _hash_password(Password8), role |-> "user",
                        can_delete_own_logs |-> FALSE]) : u \in {<<"1">>, <<"b", "@", "x">>}}

ResolveRefs ==
    {IntRef(n) : n \in {0, 1, 3, 9}}
      \cup {StrRef(s) : s \in {<<>>, <<" ">>, <<"1">>, <<" ", "1", " ">>, <<"0", "3">>, <<"9">>,
                               <<"U+00B2">>, <<"1", "U+00B2">>,
                               ADMIN_USERNAME, <<" ">> \o USER_USERNAME,
                               <<"A", "d", "m", "i", "n">>,
                               _default_email(ADMIN_USERNAME), <<"N", "@", "X">>,
                               <<"b", "@", "x">>, <<"1", "@", "x">>, <<"g">>}}

ResolveInit ==
    /\ ADMIN_TOKEN = <<>>
    /\ now = 0
    /\ schema_ready = TRUE
    /\ issued = {}
    /\ MODEL = "none"
    /\ users \in ResolveTables
    /\ perms = EmptyMap
    /\ logs = {}
    /\ next_log_id = 1
    /\ last \in {[op |-> "call_resolve_user", ref |-> r, exc |-> "", lookups |-> <<>>,
                  out |-> <<>>] : r \in ResolveRefs}
    /\ ThreadsIdle

\* _resolve_user(ref): the value returned, or the ValueError of int(s)
ResolveCall ==
    /\ last.op = "call_resolve_user"
    /\ last' = IF IsDigitStr(RefText(last.ref)) /\ IntRaises(RefText(last.ref))
               THEN [last EXCEPT !.op = "resolve_user", !.exc = "ValueError"]
               ELSE [last EXCEPT !.op = "resolve_user",
                                 !.lookups = ResolveLookups(last.ref),
                                 !.out = _resolve_user(users, last.ref)]
    /\ UNCHANGED <<ADMIN_TOKEN, now, schema_ready, issued, MODEL, dbVars, threadVars>>

NextResolve == ResolveCall

SpecResolve == ResolveInit /\ [][NextResolve]_vars

\* the single lookup the claim prescribes for a reference of text s
ClaimedLookup(ref) ==
    LET s == RefText(ref)
    IN  IF ref.kind = "int" \/ IsDigitStr(s) THEN "id"
        ELSE IF HasAt(s) THEN "email"
        ELSE "username"

\* the row a lookup finds in the users table
Found(lookup) ==
    CASE lookup.by = "id" ->
            {i \in 1..Len(users) : ToStr(users[i].id) = lookup.key}
      [] lookup.by = "email" ->
            {i \in 1..Len(users) : users[i].email = lookup.key}
      [] lookup.by = "username" ->
            {i \in 1..Len(users) : users[i].username = lookup.key}

\* C21 as claimed: _resolve_user returns none for an empty reference and
\* otherwise performs exactly one lookup chosen by the shape of the reference
\* (id for an integer or an all-digit string, lowercased email for a string
\* with an @, username otherwise) and returns what that lookup finds.
C21_DispatchByShape ==
    last.op = "resolve_user" =>
        IF RefText(last.ref) = <<>>
        THEN last.exc = "" /\ last.lookups = <<>> /\ last.out = <<>>
        ELSE /\ last.exc = ""
             /\ Len(last.lookups) = 1
             /\ last.lookups[1].by = ClaimedLookup(last.ref)
             /\ last.out = FirstMatch(users, Found(last.lookups[1]))

\* the same, for references whose digit strings are decimal literals
DispatchByShapeDecimal ==
    (last.op = "resolve_user" /\ ~ IntRaises(RefText(last.ref)))
        => IF RefText(last.ref) = <<>>
           THEN last.exc = "" /\ last.lookups = <<>> /\ last.out = <<>>
           ELSE /\ last.exc = ""
                /\ Len(last.lookups) = 1
                /\ last.lookups[1].by = ClaimedLookup(last.ref)
                /\ last.out = FirstMatch(users, Found(last.lookups[1]))

\* a user whose username is all digits was asked for by that username and the
\* account with that id was returned instead
DigitUsernameShadowed ==
    /\ last.op = "resolve_user"
    /\ last.ref = StrRef(<<"1">>)
    /\ \E i \in 1..Len(users) : users[i].username = <<"1">> /\ users[i].id # 1
    /\ last.out # <<>> /\ last.out[1].id = 1

(***************************************************************************)
(* SpecConnect: get_connection, one _connect at a time.  Every _connect is *)
(* answered by the store: a connection, a store error (mysql.connector     *)
(* Error), the store error 1049 "unknown database", or another exception.  *)
(***************************************************************************)
RETRY_ATTEMPTS == 5

ConnectOutcomes == {"ok", "error", "unknown_db", "other"}

ConnFrame ==
    UNCHANGED <<ADMIN_TOKEN, now, last, schema_ready, issued, MODEL, dbVars,
                schema_lock, pc, txn, user_count, saw_ready, took_lock, boot_runs,
                boot_commits, faults>>

\* the mutant: the loop never counts its attempts
AfterSleepForever(c) == [c EXCEPT !.pc = "attempt"]

\* for attempt in range(1, RETRY_ATTEMPTS + 1): the next iteration, or the raise
\* that follows the loop
AfterSleep(c) ==
    IF c.attempt < RETRY_ATTEMPTS
    THEN [c EXCEPT !.pc = "attempt", !.attempt = @ + 1]
    ELSE [c EXCEPT !.pc = "raised", !.exc = "RuntimeError"]

\* get_connection() is called
ConnCall ==
    /\ conn.pc = "idle"
    /\ conn' = IF RETRY_ATTEMPTS >= 1
               THEN [conn EXCEPT !.op = "get_connection", !.pc = "attempt", !.attempt = 1]
               ELSE [conn EXCEPT !.op = "get_connection", !.pc = "raised", !.exc = "RuntimeError"]
    /\ ConnFrame

\* return _connect(with_database=True)
ConnTry(outcome) ==
    /\ conn.pc = "attempt"
    /\ conn' = CASE outcome = "ok" ->
                      [conn EXCEPT !.pc = "returned", !.connects = @ + 1, !.open = @ + 1]
                 [] outcome = "error" -> [conn EXCEPT !.pc = "sleep", !.connects = @ + 1]
                 [] outcome = "unknown_db" -> [conn EXCEPT !.pc = "ensure", !.connects = @ + 1]
                 [] outcome = "other" ->
                      [conn EXCEPT !.pc = "raised", !.connects = @ + 1, !.exc = "Exception"]
    /\ ConnFrame

\* _ensure_database_exists(): its own connection is closed in the finally block
\* whether CREATE DATABASE succeeded or raised
ConnEnsure(outcome) ==
    /\ conn.pc = "ensure"
    /\ conn' = CASE outcome = "ok" -> [conn EXCEPT !.pc = "reconnect"]
                 [] outcome \in {"error", "unknown_db"} -> [conn EXCEPT !.pc = "sleep"]
                 [] outcome = "other" -> [conn EXCEPT !.pc = "raised", !.exc = "Exception"]
    /\ ConnFrame

\* the second _connect(with_database=True) of the same attempt
ConnRetry(outcome) ==
    /\ conn.pc = "reconnect"
    /\ conn' = CASE outcome = "ok" ->
                      [conn EXCEPT !.pc = "returned", !.connects = @ + 1, !.open = @ + 1]
                 [] outcome \in {"error", "unknown_db"} ->
                      [conn EXCEPT !.pc = "sleep", !.connects = @ + 1]
                 [] outcome = "other" ->
                      [conn EXCEPT !.pc = "raised", !.connects = @ + 1, !.exc = "Exception"]
    /\ ConnFrame

\* except mysql_connector.Error: time.sleep(RETRY_DELAY_SECONDS), then the loop goes on
ConnSleep ==
    /\ conn.pc = "sleep"
    /\ conn' = AfterSleep([conn EXCEPT !.sleeps = @ + 1])
    /\ ConnFrame

ConnectInit ==
    /\ ADMIN_TOKEN = <<>>
    /\ now = 0
    /\ last = Resp("none", 0, <<>>, <<>>, <<>>)
    /\ schema_ready = FALSE
    /\ issued = {}
    /\ MODEL = "none"
    /\ DbEmpty
    /\ ThreadsIdle

NextConnect ==
    \/ ConnCall
    \/ \E outcome \in ConnectOutcomes : ConnTry(outcome)
    \/ \E outcome \in ConnectOutcomes : ConnEnsure(outcome)
    \/ \E outcome \in ConnectOutcomes : ConnRetry(outcome)
    \/ ConnSleep

\* the calling thread keeps running: every _connect is answered and every sleep ends
SpecConnect == ConnectInit /\ [][NextConnect]_vars /\ WF_vars(NextConnect)

ConnDone == conn.pc \in {"returned", "raised"}

\* C23: get_connection terminates; it never starts more than RETRY_ATTEMPTS
\* attempts; it returns as soon as a _connect succeeds, having slept once after
\* each earlier attempt; when every attempt ended in a store error it raises
\* the connection-failed RuntimeError, after RETRY_ATTEMPTS attempts each
\* followed by one sleep.
C23_ConnectTerminates ==
    /\ [](/\ conn.attempt <= RETRY_ATTEMPTS
          /\ conn.connects <= 2 * conn.attempt
          /\ conn.pc = "returned"
                => conn.open = 1 /\ conn.exc = "" /\ conn.sleeps = conn.attempt - 1
          /\ (conn.pc = "raised" /\ conn.exc = "RuntimeError")
                => /\ conn.open = 0
                   /\ conn.attempt = RETRY_ATTEMPTS
                   /\ conn.sleeps = RETRY_ATTEMPTS
          /\ (conn.pc = "raised" /\ conn.sleeps = conn.attempt /\ conn.attempt > 0)
                => conn.exc = "RuntimeError")
    /\ <>ConnDone

\* every attempt failed with a store error and the fatal error was raised
C23_Witness ==
    /\ conn.pc = "raised" /\ conn.exc = "RuntimeError"
    /\ conn.attempt = RETRY_ATTEMPTS
    /\ conn.connects >= RETRY_ATTEMPTS

(***************************************************************************)
(* SpecConns: the connection of one database operation after another, with *)
(* a failure possible at every call into the driver.                       *)
(***************************************************************************)
MaxOps == 3

\* one operation of each layout found in db.py
DbOps == {"init_db", "create_user", "get_user", "insert_prediction", "get_recent_for_user_id"}

\* init_db: conn.cursor() inside try/finally; create_user, get_user (and the other
\* user and delete operations): conn.cursor() before the try; insert_prediction
\* and the get_recent functions: no try at all
Layout(op) ==
    CASE op = "init_db" -> "cursor_in_try"
      [] op \in {"create_user", "get_user"} -> "cursor_before_try"
      [] OTHER -> "no_try"

\* the operations that end with conn.commit()
Commits(op) == op \in {"init_db", "create_user", "insert_prediction"}

\* an exception leaves the operation: nothing more of it runs
Propagate(c, e) == [c EXCEPT !.pc = "idle", !.exc = e]

\* conn = get_connection()
OpBegin(op, ok) ==
    /\ conn.pc = "idle"
    /\ conn.connects < MaxOps
    /\ conn' = IF ok
               THEN [conn EXCEPT !.op = op, !.pc = "cursor", !.exc = "",
                                 !.connects = @ + 1, !.open = @ + 1]
               ELSE [conn EXCEPT !.op = op, !.exc = "RuntimeError", !.connects = @ + 1]
    /\ ConnFrame

\* cur = conn.cursor()
OpCursor(ok) ==
    /\ conn.pc = "cursor"
    /\ conn' = IF ok THEN [conn EXCEPT !.pc = "execute"]
               ELSE IF Layout(conn.op) = "cursor_in_try"
               THEN [conn EXCEPT !.pc = "finally_unbound", !.exc = "Error"]
               ELSE Propagate(conn, "Error")
    /\ ConnFrame

\* cur.execute(...)
OpExecute(ok) ==
    /\ conn.pc = "execute"
    /\ conn' = IF ok THEN [conn EXCEPT !.pc = IF Commits(conn.op) THEN "commit" ELSE "close"]
               ELSE IF Layout(conn.op) = "no_try" THEN Propagate(conn, "Error")
               ELSE [conn EXCEPT !.pc = "close", !.exc = "Error"]
    /\ ConnFrame

\* conn.commit()
OpCommit(ok) ==
    /\ conn.pc = "commit"
    /\ conn' = IF ok THEN [conn EXCEPT !.pc = "close"]
               ELSE IF Layout(conn.op) = "no_try" THEN Propagate(conn, "Error")
               ELSE [conn EXCEPT !.pc = "close", !.exc = "Error"]
    /\ ConnFrame

\* cur.close(); conn.close()
OpClose ==
    /\ conn.pc = "close"
    /\ conn' = [conn EXCEPT !.pc = "idle", !.open = @ - 1]
    /\ ConnFrame

\* init_db's finally block when conn.cursor() raised: cur is unbound, cur.close()
\* raises UnboundLocalError and conn.close() is not reached
OpCloseUnbound ==
    /\ conn.pc = "finally_unbound"
    /\ conn' = Propagate(conn, "UnboundLocalError")
    /\ ConnFrame

NextConns ==
    \/ \E op \in DbOps, ok \in BOOLEAN : OpBegin(op, ok)
    \/ \E ok \in BOOLEAN : OpCursor(ok)
    \/ \E ok \in BOOLEAN : OpExecute(ok)
    \/ \E ok \in BOOLEAN : OpCommit(ok)
    \/ OpClose
    \/ OpCloseUnbound

SpecConns == ConnectInit /\ [][NextConns]_vars

\* C22 as claimed: whenever no database operation is in progress, no connection
\* is open.
C22_NoConnectionLeak == conn.pc = "idle" => conn.open = 0

\* the operations whose connection is closed when a statement or the commit
\* raises do close it: only a failing conn.cursor() leaks there
GuardedOpsCloseAfterCursor ==
    [][ (conn.pc \in {"execute", "commit"} /\ Layout(conn.op) # "no_try" /\ conn'.pc = "idle")
          => FALSE ]_vars

(***************************************************************************)
(* SpecRegister: concurrent POST /auth/register requests.  The existence   *)
(* check and the INSERT are two database operations with a connection and  *)
(* a transaction each, so other requests run between them.                 *)
(***************************************************************************)
RegFrame ==
    UNCHANGED <<ADMIN_TOKEN, now, last, issued, MODEL, perms, logs, next_log_id,
                schema_lock, user_count, saw_ready, took_lock, boot_runs, boot_commits,
                faults, conn>>

\* the request of thread t has been answered
RegAnswer(t, email, valid, status, created) ==
    /\ pc' = [pc EXCEPT ![t] = "registered"]
    /\ txn' = [txn EXCEPT ![t] = <<[email |-> email, valid |-> valid, status |-> status,
                                    created |-> created]>>]

\* auth_register up to and including existing = get_user_by_email(email)
RegCheck(t, email0, password) ==
    LET email == Lower(Strip(email0))
    IN  /\ pc[t] = "idle"
        /\ IF email = <<>> \/ ~ HasAt(email) THEN RegAnswer(t, email, FALSE, 400, 0)
           ELSE IF password = <<>> \/ Len(password) < MIN_PASSWORD_LENGTH
           THEN RegAnswer(t, email, FALSE, 400, 0)
           ELSE IF get_user_by_email(InitDbUsers, email) # <<>>
           THEN RegAnswer(t, email, TRUE, 409, 0)
           ELSE /\ pc' = [pc EXCEPT ![t] = "create_user"]
                /\ txn' = [txn EXCEPT ![t] = <<[email |-> email, password |-> password]>>]
        /\ IF email = <<>> \/ ~ HasAt(email) \/ Len(password) < MIN_PASSWORD_LENGTH
           THEN UNCHANGED <<users, schema_ready>>
           ELSE users' = InitDbUsers /\ schema_ready' = TRUE
        /\ RegFrame

\* create_user(email, password, role="user", username=email) and the response:
\* the INSERT raises IntegrityError on a duplicate email or username, which the
\* handler's except Exception answers with 400
RegInsert(t) ==
    /\ pc[t] = "create_user"
    /\ LET email == txn[t][1].email
           row == NewUserRow(email, txn[t][1].password, "user", email)
           U == InitDbUsers
       IN  IF UniqueOk(U, row)
           THEN /\ users' = InsertUser(U, row)
                /\ RegAnswer(t, email, TRUE, 201, Len(U) + 1)
           ELSE /\ users' = U
                /\ RegAnswer(t, email, TRUE, 400, 0)
    /\ schema_ready' = TRUE
    /\ RegFrame

\* the thread serves the next request
RegAgain(t) ==
    /\ pc[t] = "registered"
    /\ pc' = [pc EXCEPT ![t] = "idle"]
    /\ txn' = [txn EXCEPT ![t] = <<>>]
    /\ UNCHANGED <<users, schema_ready>>
    /\ RegFrame

\* two addresses, one of them also typed with a capital and a trailing blank,
\* and a text that is no address
RaceEmails == RegisterEmails \cup {<<"e", "@", "x">>}

NextRegister ==
    \/ \E t \in Threads, email \in RaceEmails, password \in {Password8, <<"p", "w">>} :
            RegCheck(t, email, password)
    \/ \E t \in Threads : RegInsert(t)
    \/ \E t \in Threads : RegAgain(t)

SpecRegister == InitPerms /\ [][NextRegister]_vars

\* C24 as claimed: a registration with a well-formed email and a password of at
\* least 8 characters is answered 201, having created one role=user record
\* with that email, or 409, having created nothing.
C24_RegisterOutcome ==
    \A t \in Threads :
        (pc[t] = "registered" /\ txn[t][1].valid)
          => \/ /\ txn[t][1].status = 201
                /\ txn[t][1].created \in 1..Len(users)
                /\ users[txn[t][1].created].email = txn[t][1].email
                /\ users[txn[t][1].created].role = "user"
             \/ /\ txn[t][1].status = 409
                /\ txn[t][1].created = 0

\* without a concurrent registration of the same email the claim holds: a
\* well-formed request is answered 400 only when the email was taken after its
\* existence check
RegisterRaceOnly ==
    \A t \in Threads :
        (pc[t] = "registered" /\ txn[t][1].valid /\ txn[t][1].status = 400)
          => \E i \in 1..Len(users) :
                users[i].email = txn[t][1].email /\ txn[t][1].created = 0

(***************************************************************************)
(* SpecUnique: every way a users row is created or changed, interleaved:   *)
(* the bootstrap of the first database call, concurrent registrations,     *)
(* accounts created by an administrator, and role changes.                 *)
(***************************************************************************)
NextUnique ==
    \/ \E t \in Threads, email \in RegisterEmails : RegCheck(t, email, Password8)
    \/ \E t \in Threads : RegInsert(t)
    \/ \E t \in Threads : RegAgain(t)
    \/ \E req \in ClientRequests, inp \in CreateInputs, store_ok \in BOOLEAN :
            AdminCreateUser(req, inp, store_ok)
    \/ \E req \in ClientRequests, role \in {"user", "admin"}, store_ok \in BOOLEAN :
            AdminChangeRole(req, USER_USERNAME, role, store_ok)

SpecUnique == InitUsers /\ [][NextUnique]_vars

\* C25: in every reachable state no two user records share a non-empty email
\* and no two share a non-empty username, and no step changes the id of a
\* record that exists.
C25_UniqueAndStableIds ==
    /\ [](\A i, j \in 1..Len(users) :
            i # j => /\ users[i].email # <<>> => users[i].email # users[j].email
                     /\ users[i].username # <<>> => users[i].username # users[j].username
                     /\ users[i].id # users[j].id)
    /\ [][ /\ Len(users') >= Len(users)
           /\ \A i \in 1..Len(users) :
                 /\ users'[i].id = users[i].id
                 /\ users'[i].email = users[i].email
                 /\ users'[i].username = users[i].username ]_vars

\* the table holds the bootstrap accounts, one created by an administrator and
\* one registered, and a concurrent registration of the same email was refused
C25_Witness ==
    /\ Len(users) = 4
    /\ \E i \in 1..Len(users) : users[i].username = <<"e", "v", "e">>
    /\ \E t \in Threads :
          /\ pc[t] = "registered" /\ txn[t][1].valid
          /\ txn[t][1].status = 400

(***************************************************************************)
(* SpecLogin: POST /auth/login as a function of the users table, the       *)
(* credentials sent and the availability of the store.                     *)
(***************************************************************************)
\* a hash written by an older release (werkzeug), and a row without a hash
LegacyHash(password) == [scheme |-> "pbkdf2", pw |-> password]

NoHash == [scheme |-> "", pw |-> <<>>]

\* the bootstrap accounts as this release or an older one stored the user's
\* password, alone or with a registered account, or after the administrator's
\* password was changed
LoginTables ==
    LET boot(h) == [i \in 1..2 |-> IF i = 2
                                   THEN [InsertAll(<<>>, BootstrapRows)[i] EXCEPT !.password_hash = h]
                                   ELSE InsertAll(<<>>, BootstrapRows)[i]]
        hashes == {_hash_password(USER_PASSWORD), LegacyHash(USER_PASSWORD), NoHash}
        changed == set_user_password(InsertAll(<<>>, BootstrapRows), StrRef(ADMIN_USERNAME), Password8)
    IN  {boot(h) : h \in hashes}
          \cup {InsertUser(boot(h), NewUserRow(<<"n", "@", "x">>, Password8, "user", <<"n", "@", "x">>)) :
                    h \in hashes}
          \cup {changed}

LoginNames ==
    {<<>>, <<" ">>, ADMIN_USERNAME, USER_USERNAME, <<" ">> \o USER_USERNAME,
     _default_email(USER_USERNAME), <<"N", "@", "X">>, <<"g">>, <<"U+00E9">>}

LoginPasswords == {<<>>, ADMIN_PASSWORD, USER_PASSWORD, Password8}

LoginInit ==
    /\ ADMIN_TOKEN = <<>>
    /\ now \in IssueTimes
    /\ schema_ready = TRUE
    /\ issued = {}
    /\ MODEL = "none"
    /\ users \in LoginTables
    /\ perms = EmptyMap
    /\ logs = {}
    /\ next_log_id = 1
    /\ last \in {[op |-> "call_login", login |-> l, password |-> p, store_ok |-> ok,
                  upgrade |-> up, status |-> 0, token |-> <<>>, before |-> <<>>,
                  writes |-> 0] :
                    l \in LoginNames, p \in LoginPasswords, ok \in BOOLEAN,
                    up \in UpgradeOutcomes}
    /\ ThreadsIdle

\* auth_login answers the request
LoginCall ==
    /\ last.op = "call_login"
    /\ LET r == auth_login(InitDbUsers, last.login, last.password, last.store_ok, last.upgrade, now)
       IN  /\ last' = [last EXCEPT !.op = "login", !.status = r.status, !.token = r.token,
                                   !.before = users, !.writes = r.writes]
           /\ users' = r.users
           /\ issued' = {r.token[k] : k \in 1..Len(r.token)}
    /\ UNCHANGED <<ADMIN_TOKEN, now, schema_ready, MODEL, perms, logs, next_log_id, threadVars>>

NextLogin == LoginCall

SpecLogin == LoginInit /\ [][NextLogin]_vars

\* the stored users a login names: by email when it contains an @, else by username
LoginMatches(U, login) ==
    {i \in 1..Len(U) :
        IF HasAt(Strip(login)) THEN U[i].email = Lower(Strip(login))
        ELSE U[i].username = Strip(login)}

\* C26: /auth/login answers 400 exactly when the login or the password is
\* empty; with the store reachable it answers 401 when the login names no user
\* or the password does not verify against the stored hash, and otherwise 200
\* with a correctly signed token carrying the id, email, username and role of
\* the stored user.
C26_LoginOutcome ==
    last.op = "login" =>
        /\ last.status = 400 <=> (last.login = <<>> \/ last.password = <<>>)
        /\ (last.store_ok /\ last.login # <<>> /\ last.password # <<>>)
              => LET m == LoginMatches(last.before, last.login)
                 IN  IF \A i \in m : \/ last.before[i].password_hash.scheme = ""
                                     \/ last.before[i].password_hash.pw # last.password
                     THEN last.status = 401 /\ last.token = <<>>
                     ELSE /\ last.status = 200
                          /\ \E i \in m :
                                last.token = <<dumps([uid |-> <<last.before[i].id>>,
                                                      e |-> last.before[i].email,
                                                      u |-> last.before[i].username,
                                                      r |-> last.before[i].role], now)>>

\* a login by email typed in capitals, against a hash of an older release
C26_Witness ==
    /\ last.op = "login" /\ last.status = 200
    /\ last.login = <<"N", "@", "X">>
    /\ last.token[1].payload.e = <<"n", "@", "x">>
    /\ \E i \in 1..Len(last.before) : last.before[i].password_hash.scheme = "pbkdf2"

(***************************************************************************)
(* SpecPredict: POST /predict under every state of the model               *)
(***************************************************************************)
ModelStates == {"none", "pipeline", "incompatible"}

PredictVerdicts == {"phishing", "legitimate", "raises"}

\* a url whose netloc opens a bracket it never closes
BracketUrl == <<"h", ":", "/", "/", "[">>

PredictBodies == {<<>>, <<OrdinaryUrl>>, <<BracketUrl>>}

\* tokens auth_login has signed at time 0 for account 1 (its role column read as
\* stored), and one signed with another key
PredictTokens ==
    { _make_token(1, <<"a", "@", "x">>, role, username, 0) :
        role \in {"user", "root"}, username \in {<<>>, <<"a">>} } \cup {ForgedToken}

PredictRequests ==
    {[authz |-> NoAuthz, xadmin |-> <<>>]}
      \cup {[authz |-> Bearer(t), xadmin |-> <<>>] : t \in PredictTokens}

PredictInit ==
    /\ ADMIN_TOKEN \in AdminTokenConfigs
    /\ now \in {0, AUTH_TOKEN_TTL_SECONDS + 1}
    /\ last = Resp("none", 0, <<>>, <<>>, <<>>)
    /\ schema_ready = FALSE
    /\ issued = {}
    /\ MODEL \in ModelStates
    /\ users = <<>>
    /\ perms = EmptyMap
    /\ logs = {}
    /\ next_log_id = 1
    /\ ThreadsIdle

NextPredict ==
    \E req \in PredictRequests, body \in PredictBodies, store_ok \in BOOLEAN,
       verdict \in PredictVerdicts :
        PredictRequest(req, body, store_ok, verdict)

SpecPredict == PredictInit /\ [][NextPredict]_vars

\* C27 (as claimed): every POST /predict that carries a url adds exactly one
\* prediction log entry while the store is reachable, whatever the state of the
\* model and whatever its predict call does.
C27_OneEntryPerRequest ==
    [][\A req \in PredictRequests, body \in PredictBodies \ {<<>>}, verdict \in PredictVerdicts :
          PredictRequest(req, body, TRUE, verdict)
              => Cardinality(logs') = Cardinality(logs) + 1]_vars

\* What the handler does guarantee: a request whose url extract_features accepts
\* is logged exactly once when no model is loaded or the loaded pipeline answers.
OneEntryWhenAnswered ==
    [][\A req \in PredictRequests, verdict \in PredictVerdicts :
          /\ PredictRequest(req, <<OrdinaryUrl>>, TRUE, verdict)
          /\ PredictLogs(MODEL, verdict)
          => /\ Cardinality(logs') = Cardinality(logs) + 1
             /\ last'.arg.log_id = <<next_log_id>>]_vars

\* reachable: an incompatible model answered 500 and nothing was logged
IncompatibleModelUnlogged ==
    /\ last.op = "predict" /\ last.arg.model = "incompatible"
    /\ last.arg.body = <<OrdinaryUrl>> /\ last.status = 500
    /\ logs = {}

\* a bearer token the serializer accepts at time clock and whose claims name a
\* user id and one of the two roles
ValidBearer(req, clock) ==
    LET token == _get_bearer_token(req.authz)
    IN  /\ token # <<>>
        /\ token[1].mac = Sign(AUTH_SECRET, token[1].payload, token[1].ts)
        /\ clock - token[1].ts <= AUTH_TOKEN_TTL_SECONDS
        /\ token[1].payload.uid # <<>>
        /\ token[1].payload.r \in {"admin", "user"}

\* the log entry the last request wrote
Written == CHOOSE row \in logs : row.id = last.arg.log_id[1]

\* C28: an entry written by /predict is either owned (the request carried a valid
\* bearer token: owner_user_id is the token's user id and the alias its email, or
\* its username when it has no email) or anonymous (no token, or one that is
\* expired, forged or has invalid claims: owner_user_id null, alias "anonymous"),
\* and a request with such a token is served, never answered 401 or 403.
C28_OneOwnershipSignal ==
    /\ \A row \in logs : row.owner_user_id = <<>> => row.owner_username = Anonymous
    /\ last.op = "predict" =>
         /\ last.status \notin {401, 403}
         /\ last.arg.log_id # <<>> =>
              LET payload == last.arg.req.authz.tok[1].payload
              IN  IF ValidBearer(last.arg.req, now)
                  THEN /\ Written.owner_user_id = payload.uid
                       /\ Written.owner_username =
                            (IF payload.e # <<>> THEN payload.e ELSE payload.u)
                       /\ Written.owner_username # Anonymous
                  ELSE /\ Written.owner_user_id = <<>>
                       /\ Written.owner_username = Anonymous

\* reached: an expired or forged token's request was logged as anonymous after a
\* valid token's request had been logged under its account
C28_Witness ==
    /\ last.op = "predict" /\ last.status = 200 /\ last.arg.log_id # <<>>
    /\ last.arg.req.authz.tok # <<>>
    /\ ~ ValidBearer(last.arg.req, now)
    /\ Written.owner_user_id = <<>>
    /\ \E row \in logs : row.owner_user_id = <<1>> /\ row.owner_username = <<"a", "@", "x">>

\* C29 (as claimed): with no model loaded, POST /predict with a url answers 200
\* with prediction "model_not_loaded", passes prediction -1 to insert_prediction,
\* and answers the same 200 with a null log id when the insert fails.
C29_NoModelAnswer ==
    last.op = "predict" /\ last.arg.model = "none" /\ last.arg.body # <<>> =>
        /\ last.status = 200
        /\ last.arg.prediction = "model_not_loaded"
        /\ last.arg.logged = <<-1>>
        /\ last.arg.log_id # <<>> => \E row \in logs : row.id = last.arg.log_id[1]

\* What the handler does guarantee: the same, for a url that extract_features accepts.
NoModelAnswerParsedUrl ==
    /\ last.op = "predict" /\ last.arg.model = "none" /\ last.arg.body # <<>>
    /\ ~ extract_features_raises(last.arg.body[1])
    => /\ last.status = 200
       /\ last.arg.prediction = "model_not_loaded"
       /\ last.arg.logged = <<-1>>
       /\ last.arg.log_id # <<>> => \E row \in logs : row.id = last.arg.log_id[1]

\* reachable: no model, the insert failed, and the answer is 200 with a null log id
NoModelInsertFailed ==
    /\ last.op = "predict" /\ last.arg.model = "none" /\ last.status = 200
    /\ last.arg.logged = <<-1>> /\ last.arg.log_id = <<>>
    /\ logs = {}

(***************************************************************************)
(* SpecStateless: the same request authorised twice while the store changes *)
(***************************************************************************)
\* tokens auth_login signed at time 0 for the two bootstrap accounts, and a forged one
StatelessTokens ==
    { _make_token(1, _default_email(ADMIN_USERNAME), "admin", ADMIN_USERNAME, 0),
      _make_token(2, _default_email(USER_USERNAME), "user", USER_USERNAME, 0),
      ForgedToken }

StatelessRequests ==
    {[authz |-> NoAuthz, xadmin |-> <<>>]}
      \cup {[authz |-> Bearer(t), xadmin |-> <<>>] : t \in StatelessTokens}

StatelessInit ==
    /\ ADMIN_TOKEN = <<>>
    /\ now = 0
    /\ last = [op |-> "require_auth", runs |-> <<>>]
    /\ schema_ready = TRUE
    /\ issued = StatelessTokens
    /\ MODEL = "none"
    /\ users = InsertAll(<<>>, BootstrapRows)
    /\ perms = EmptyMap
    /\ logs = {}
    /\ next_log_id = 1
    /\ ThreadsIdle

StatelessFrame ==
    UNCHANGED <<ADMIN_TOKEN, schema_ready, issued, MODEL, perms, logs, next_log_id, threadVars>>

\* one run of _require_auth: what it was given, the store it ran beside, its outcome
Run(req, required_role, store_up) ==
    [req |-> req, required_role |-> required_role, clock |-> now,
     users |-> users, store_up |-> store_up,
     out |-> _require_auth(req, required_role, now)]

\* a guarded endpoint receives a request
AuthFirst(req, required_role, store_up) ==
    /\ last.runs = <<>>
    /\ last' = [last EXCEPT !.runs = <<Run(req, required_role, store_up)>>]
    /\ UNCHANGED <<now, users>>
    /\ StatelessFrame

\* the same request is sent again
AuthAgain(store_up) ==
    /\ Len(last.runs) = 1
    /\ last' = [last EXCEPT
                  !.runs = Append(@, Run(last.runs[1].req, last.runs[1].required_role, store_up))]
    /\ UNCHANGED <<now, users>>
    /\ StatelessFrame

\* set_user_role, committed by an administrator between the two requests
StoreChangeRole(username, role) ==
    /\ Len(last.runs) <= 1
    /\ users' = set_user_role(users, StrRef(username), role)
    /\ users' # users
    /\ UNCHANGED <<now, last>>
    /\ StatelessFrame

\* the token's lifetime passes
LifetimePasses ==
    /\ now = 0
    /\ now' = AUTH_TOKEN_TTL_SECONDS + 1
    /\ UNCHANGED <<last, users>>
    /\ StatelessFrame

NextStateless ==
    \/ \E req \in StatelessRequests, required_role \in RequiredRoles, store_up \in BOOLEAN :
            AuthFirst(req, required_role, store_up)
    \/ \E store_up \in BOOLEAN : AuthAgain(store_up)
    \/ \E username \in {ADMIN_USERNAME, USER_USERNAME}, role \in {"admin", "user"} :
            StoreChangeRole(username, role)
    \/ LifetimePasses

SpecStateless == StatelessInit /\ [][NextStateless]_vars

Verified ==
    {i \in LoginMatches(last.before, last.login) :
        /\ last.before[i].password_hash.scheme # ""
        /\ last.before[i].password_hash.pw = last.password}

\* C31: when the correct password verifies against a legacy hash and the
\* upgrade to bcrypt fails (the UPDATE raises, or the row cannot be read back),
\* the login still answers 200 with a token for that user.
C31_UpgradeFailureSwallowed ==
    /\ last.op = "login" /\ last.store_ok /\ last.upgrade # "ok"
    /\ \E i \in Verified : last.before[i].password_hash.scheme # "bcrypt"
    => /\ last.status = 200
       /\ \E i \in Verified : last.token # <<>> /\ last.token[1].payload.uid = <<last.before[i].id>>

\* reached: the UPDATE raised, the legacy hash is still stored, the login succeeded
C31_Witness ==
    /\ last.op = "login" /\ last.store_ok /\ last.upgrade = "write_fails"
    /\ last.status = 200
    /\ \E i \in Verified : /\ last.before[i].password_hash.scheme = "pbkdf2"
                           /\ users[i].password_hash.scheme = "pbkdf2"

\* C40: after a login whose password verifies against a legacy hash and whose
\* upgrade UPDATE commits, the user's stored hash is a bcrypt hash that verifies
\* the same password and every other row is as it was; a login against a hash
\* that is already bcrypt executes no UPDATE and leaves the table as it was.
C40_UpgradeInPlace ==
    last.op = "login" /\ last.store_ok =>
        \A i \in Verified :
            IF _is_bcrypt_hash(last.before[i].password_hash)
            THEN last.writes = 0 /\ users = last.before
            ELSE last.upgrade # "write_fails" =>
                   /\ last.writes = 1
                   /\ _is_bcrypt_hash(users[i].password_hash)
                   /\ _verify_password(users[i].password_hash, last.password)
                   /\ users[i] = [last.before[i] EXCEPT !.password_hash = users[i].password_hash]
                   /\ Len(users) = Len(last.before)
                   /\ \A j \in 1..Len(users) : j # i => users[j] = last.before[j]

\* reached: a legacy hash was replaced by a bcrypt hash beside two other accounts
C40_Witness ==
    /\ last.op = "login" /\ last.store_ok /\ last.status = 200 /\ last.upgrade = "ok"
    /\ Len(users) = 3
    /\ \E i \in Verified : /\ last.before[i].password_hash.scheme = "pbkdf2"
                           /\ users[i].password_hash = _hash_password(last.password)

\* the token auth_login issues from the configured administrator credentials
EnvAdminToken ==
    dumps([uid |-> <<0 - 1>>, e |-> _default_email(ADMIN_USERNAME), u |-> ADMIN_USERNAME,
           r |-> "admin"], now)

\* C37: with the store unreachable /auth/login succeeds exactly when login and
\* password equal ADMIN_USERNAME and ADMIN_PASSWORD, and then issues an admin
\* token with user id -1; with the store reachable, credentials it rejects are
\* answered 401 even when they are the configured administrator credentials.
C37_EnvAdminFallback ==
    last.op = "login" =>
        /\ ~ last.store_ok =>
             /\ last.status = 200
                  <=> (last.login = ADMIN_USERNAME /\ last.password = ADMIN_PASSWORD)
             /\ last.status = 200 => last.token = <<EnvAdminToken>>
             /\ users = last.before
        /\ (last.store_ok /\ last.login # <<>> /\ last.password # <<>> /\ Verified = {})
             => last.status = 401 /\ last.token = <<>>

\* reached: the store is down and the configured administrator logs in
C37_Witness ==
    /\ last.op = "login" /\ ~ last.store_ok
    /\ last.login = ADMIN_USERNAME /\ last.password = ADMIN_PASSWORD
    /\ last.status = 200 /\ last.token[1].payload.uid = <<0 - 1>>

\* reached: the store holds another password for the administrator and refuses
\* the configured one
EnvAdminRefusedByStore ==
    /\ last.op = "login" /\ last.store_ok
    /\ last.login = ADMIN_USERNAME /\ last.password = ADMIN_PASSWORD
    /\ last.status = 401

(***************************************************************************)
(* SpecRoles: the endpoints that write a role                              *)
(***************************************************************************)
RoleTexts == {"user", "admin", "root", "Admin", "", " ", " admin "}

RoleCreateInputs ==
    { [email |-> <<"e", "@", "x">>, username |-> <<"e", "v", "e">>, password |-> Password8,
       role |-> r] : r \in RoleTexts }

\* no credentials, or the legacy administrator header
RoleRequests == {[authz |-> NoAuthz, xadmin |-> x] : x \in {<<>>, <<"s", "k">>}}

NextRoles ==
    \/ \E store_ok \in BOOLEAN : Register(<<"n", "@", "x">>, Password8, store_ok)
    \/ \E req \in RoleRequests, inp \in RoleCreateInputs, store_ok \in BOOLEAN :
            AdminCreateUser(req, inp, store_ok)
    \/ \E req \in RoleRequests, role \in RoleTexts, store_ok \in BOOLEAN :
            AdminChangeRole(req, USER_USERNAME, role, store_ok)
    \/ \E req \in RoleRequests, user_id \in {1, 3}, role \in RoleTexts,
          store \in {"ok", "down", "reread_fails"} :
            AdminChangeRoleById(req, user_id, role, store)

SpecRoles == InitUsers /\ [][NextRoles]_vars

\* the endpoints that write a role
RoleOps == {"admin_create_user", "change_role", "change_role_by_id"}

\* every stored role is one of the two
RolesValid == \A i \in 1..Len(users) : users[i].role \in {"user", "admin"}

\* C32 (as claimed): every user record's role is "user" or "admin", and a create
\* or role-change request of an administrator with any other role value is
\* answered 400 and changes nothing.
C32_RoleClosedAsClaimed ==
    /\ []RolesValid
    /\ [][(last'.op \in RoleOps /\ last'.status \notin {401, 500}
             /\ last'.arg.role \notin {"user", "admin"})
          => (last'.status = 400 /\ users' = users)]_vars

\* spellings the handlers trim to a role, and the empty ones that POST /admin/users
\* reads as the default role
PaddedRoles == {" admin ", " user"}

BlankRoles == {"", " "}

\* C32 (amended): every user record's role is "user" or "admin"; a role-change
\* request of an administrator whose role, once surrounding whitespace is
\* trimmed, is neither of the two is answered 400 and changes nothing, and so is
\* a create request unless its role is empty or blank, which stands for "user".
C32_RoleClosed ==
    /\ []RolesValid
    /\ [][(last'.op \in RoleOps /\ last'.status \notin {401, 500}
             /\ last'.arg.role \notin {"user", "admin"} \cup PaddedRoles
             /\ (last'.op = "admin_create_user" => last'.arg.role \notin BlankRoles))
          => (last'.status = 400 /\ users' = users)]_vars
    /\ [][(last'.op = "admin_create_user" /\ last'.status = 200 /\ users' # users
             /\ last'.arg.role \in BlankRoles)
          => users'[Len(users')].role = "user"]_vars

\* reached: an account created from a request with an empty role, as a user,
\* after a request for the role "root" was refused
C32_Witness ==
    /\ last.op = "admin_create_user" /\ last.status = 200 /\ last.arg.role = ""
    /\ \E i \in 1..Len(users) : users[i].username = <<"e", "v", "e">> /\ users[i].role = "user"

\* reached: a role-change request for "root" refused
RootRefused ==
    /\ last.op = "change_role" /\ last.status = 400 /\ last.arg.role = "root"
    /\ Len(users) > 0

(***************************************************************************)
(* SpecTarget: the account an administrator's role or password change hits *)
(***************************************************************************)
\* the bootstrap user by username, by email and by numeric id; a registered
\* account by its email; a name and an id nobody has
TargetRefs ==
    {USER_USERNAME, _default_email(USER_USERNAME), <<"2">>, <<"n", "@", "x">>, <<"g">>, <<"9">>}

LegacyAdminRequest == [authz |-> NoAuthz, xadmin |-> <<"s", "k">>]

TargetInit == InitUsers /\ ADMIN_TOKEN = <<"s", "k">>

NextTarget ==
    \/ \E store_ok \in BOOLEAN : Register(<<"n", "@", "x">>, Password8, store_ok)
    \/ \E ref \in TargetRefs, role \in {"user", "admin"}, store_ok \in BOOLEAN :
            AdminChangeRole(LegacyAdminRequest, ref, role, store_ok)
    \/ \E user_id \in {2, 9}, role \in {"user", "admin"}, store \in {"ok", "down", "reread_fails"} :
            AdminChangeRoleById(LegacyAdminRequest, user_id, role, store)
    \/ \E ref \in TargetRefs, password \in {Password8, USER_PASSWORD}, store_ok \in BOOLEAN :
            AdminChangePassword(LegacyAdminRequest, ref, password, store_ok)

SpecTarget == TargetInit /\ [][NextTarget]_vars

\* the rows of table V that differ from table U
RowsChanged(U, V) == {i \in 1..Len(V) : i > Len(U) \/ V[i] # U[i]}

\* in this step a change request answered 200 left the user that _resolve_user
\* finds for its ref with the requested role (or a hash of the requested
\* password) and changed no other row
ChangeHitsResolved ==
    LET U == InitDbUsers
        t == _resolve_user(users', last'.arg.ref)
    IN  /\ Len(users') = Len(U)
        /\ t # <<>> =>
             IF last'.op = "change_password"
             THEN /\ _is_bcrypt_hash(t[1].password_hash)
                  /\ _verify_password(t[1].password_hash, last'.arg.password)
             ELSE t[1].role = last'.arg.role
        /\ \A i \in RowsChanged(U, users') : t # <<>> /\ t[1].id = users'[i].id

TargetOps == {"change_role", "change_role_by_id", "change_password"}

\* C33 (as claimed): a role or password change answered 200 acts on exactly the
\* user _resolve_user resolves the ref to, be the ref a numeric id, an email or
\* a username, and on no other record.
C33_ActsOnResolvedUser ==
    [][(last'.op \in TargetOps /\ last'.status = 200) => ChangeHitsResolved]_vars

\* What the handlers do guarantee: the same for every ref that is not an email.
ActsOnResolvedUserUnlessEmail ==
    [][(last'.op \in TargetOps /\ last'.status = 200 /\ ~ HasAt(last'.arg.ref.s))
          => ChangeHitsResolved]_vars

\* reachable: a role change addressed by email answered 200 and the account that
\* email resolves to kept its role
EmailRefMissed ==
    /\ last.op = "change_role" /\ last.status = 200
    /\ last.arg.ref.s = _default_email(USER_USERNAME) /\ last.arg.role = "admin"
    /\ _resolve_user(users, last.arg.ref) # <<>>
    /\ _resolve_user(users, last.arg.ref)[1].role = "user"

(***************************************************************************)
(* SpecList: the three list operations of the prediction log               *)
(***************************************************************************)
MaxListed == 3

\* who a stored entry can belong to: an account by id (with the alias /predict
\* wrote), an alias alone, or nobody (NULL alias)
ListOwners ==
    { [uid |-> <<2>>, name |-> _default_email(USER_USERNAME)],
      [uid |-> <<>>, name |-> USER_USERNAME],
      [uid |-> <<1>>, name |-> _default_email(ADMIN_USERNAME)],
      [uid |-> <<>>, name |-> <<>>] }

\* the log tables with ids among 1..MaxListed
ListTables ==
    UNION { { {LogRow(i, f[i].name, f[i].uid) : i \in ids} : f \in [ids -> ListOwners] } :
              ids \in SUBSET (1..MaxListed) }

ListCalls ==
    { [fn |-> "get_recent", username |-> <<>>, user_id |-> 0],
      [fn |-> "get_recent_for_user", username |-> USER_USERNAME, user_id |-> 0],
      [fn |-> "get_recent_for_user_id", username |-> <<>>, user_id |-> 2],
      [fn |-> "get_recent_for_user_id", username |-> <<>>, user_id |-> 9] }

ListInit ==
    /\ ADMIN_TOKEN = <<>>
    /\ now = 0
    /\ schema_ready = TRUE
    /\ issued = {}
    /\ MODEL = "none"
    /\ users = InsertAll(<<>>, BootstrapRows)
    /\ perms = EmptyMap
    /\ logs \in ListTables
    /\ next_log_id = MaxListed + 1
    /\ last \in {[op |-> "call_list", call |-> c, limit |-> n, out |-> <<>>] :
                    c \in ListCalls, n \in 0..MaxListed}
    /\ ThreadsIdle

\* the list operation answers
ListCall ==
    /\ last.op = "call_list"
    /\ last' = [last EXCEPT
                  !.op = "listed",
                  !.out = IF last.call.fn = "get_recent" THEN get_recent(logs, last.limit)
                          ELSE IF last.call.fn = "get_recent_for_user"
                          THEN get_recent_for_user(logs, last.call.username, last.limit)
                          ELSE get_recent_for_user_id(users, logs, last.call.user_id, last.limit)]
    /\ UNCHANGED <<ADMIN_TOKEN, now, schema_ready, issued, MODEL, dbVars, threadVars>>

\* delete_logs_for_user_id runs: cur.rowcount is the number of rows it removed
DeleteCall ==
    /\ last.op = "call_list" /\ last.call.fn = "get_recent_for_user_id"
    /\ logs' = delete_logs_for_user_id(users, logs, last.call.user_id)
    /\ last' = [last EXCEPT !.op = "deleted", !.out = OrderDesc(logs),
                            !.limit = Cardinality(logs) - Cardinality(logs')]
    /\ UNCHANGED <<ADMIN_TOKEN, now, schema_ready, issued, MODEL, users, perms, next_log_id,
                   threadVars>>

NextList == ListCall \/ DeleteCall

SpecList == ListInit /\ [][NextList]_vars

\* the ids of the entries in the scope of the call recorded in `last`
ScopeIds ==
    LET c == last.call
        u == get_user_by_id(users, c.user_id)
    IN  {r.id : r \in
          {r \in logs :
             IF c.fn = "get_recent" THEN TRUE
             ELSE IF c.fn = "get_recent_for_user" THEN r.owner_username = c.username
             ELSE \/ r.owner_user_id = <<c.user_id>>
                  \/ (u # <<>> /\ r.owner_username \in {u[1].email, u[1].username})}}

\* C34: each list operation with limit L >= 0 returns entries of its scope in
\* strictly descending id order, at most L of them, and when the scope holds
\* more than L, the L with the largest ids.
C34_NewestFirstBounded ==
    last.op = "listed" =>
        LET out == last.out
            ids == {out[i].id : i \in 1..Len(out)}
        IN  /\ \A i \in 1..(Len(out) - 1) : out[i].id > out[i + 1].id
            /\ Len(out) <= last.limit
            /\ ids \subseteq ScopeIds
            /\ Len(out) = (IF Cardinality(ScopeIds) < last.limit
                           THEN Cardinality(ScopeIds) ELSE last.limit)
            /\ \A a \in ids, b \in ScopeIds \ ids : a > b

\* reached: a user's scope of three entries listed with limit 2
C34_Witness ==
    /\ last.op = "listed" /\ last.call.fn = "get_recent_for_user_id" /\ last.limit = 2
    /\ Cardinality(ScopeIds) = 3
    /\ Len(last.out) = 2 /\ last.out[1].id = 3 /\ last.out[2].id = 2

\* C36: delete_logs_for_user_id(id) removes exactly the entries that
\* get_recent_for_user_id(id) lists when its limit exceeds the log, returns
\* their number, leaves every other entry as it was, and afterwards
\* get_recent_for_user_id(id) lists nothing.  (last.out holds the log before
\* the call and last.limit the number returned.)
C36_DeleteMatchesList ==
    last.op = "deleted" =>
        LET before == {last.out[i] : i \in 1..Len(last.out)}
            listed == get_recent_for_user_id(users, before, last.call.user_id, Len(last.out) + 1)
            ids == {listed[i].id : i \in 1..Len(listed)}
        IN  /\ logs = {r \in before : r.id \notin ids}
            /\ last.limit = Len(listed)
            /\ get_recent_for_user_id(users, logs, last.call.user_id, Len(last.out) + 1) = <<>>

\* reached: two of three entries removed, one by its owner id and one by an alias
C36_Witness ==
    /\ last.op = "deleted" /\ last.call.user_id = 2 /\ last.limit = 2
    /\ Cardinality(logs) = 1
    /\ \E i, j \in 1..Len(last.out) :
          /\ last.out[i].owner_user_id = <<2>>
          /\ last.out[j].owner_user_id = <<>> /\ last.out[j].owner_username = USER_USERNAME

(***************************************************************************)
(* SpecAppend: every handler that writes or removes prediction log entries *)
(***************************************************************************)
\* the bootstrap accounts, with the user's delegation off or on
AppendTables ==
    { InsertAll(<<>>, BootstrapRows),
      [i \in 1..2 |-> IF i = 2
                      THEN [InsertAll(<<>>, BootstrapRows)[i] EXCEPT !.can_delete_own_logs = TRUE]
                      ELSE InsertAll(<<>>, BootstrapRows)[i]] }

\* no credentials, the legacy header (right or wrong), the tokens of the two
\* accounts and a forged administrator token
AppendRequests ==
    {[authz |-> NoAuthz, xadmin |-> x] : x \in {<<>>, <<"s", "k">>, <<"s">>}}
      \cup {[authz |-> Bearer(t), xadmin |-> <<>>] : t \in StatelessTokens}

AppendQueries ==
    { [user_id |-> <<>>, username |-> <<>>, limit |-> DEFAULT_LIMIT],
      [user_id |-> <<"2">>, username |-> <<>>, limit |-> DEFAULT_LIMIT],
      [user_id |-> <<>>, username |-> USER_USERNAME, limit |-> DEFAULT_LIMIT] }

AppendInit ==
    /\ ADMIN_TOKEN \in AdminTokenConfigs
    /\ now = 0
    /\ last = Resp("none", 0, <<>>, <<>>, <<>>)
    /\ schema_ready = TRUE
    /\ issued = StatelessTokens
    /\ MODEL = "none"
    /\ users \in AppendTables
    /\ perms = EmptyMap
    /\ logs \in LegacyLogs
    /\ next_log_id = Cardinality(logs) + 1
    /\ ThreadsIdle

NextAppend ==
    \/ \E req \in AppendRequests : Predict(req, TRUE)
    \/ \E req \in AppendRequests, fault \in {"none", "delete"} : DeleteMine(req, fault)
    \/ \E req \in AppendRequests, q \in AppendQueries, store_ok \in BOOLEAN :
            DeleteLogs(req, q, store_ok)
    \/ \E req \in AppendRequests, method \in {"GET", "DELETE"}, store_ok \in BOOLEAN :
            AdminUserLogsById(req, method, 2, <<>>, store_ok)

SpecAppend == AppendInit /\ [][NextAppend]_vars

\* the caller of the request is an administrator: the configured legacy secret,
\* or a valid bearer token with the role admin
AdminCaller(req) ==
    \/ ADMIN_TOKEN # <<>> /\ req.xadmin = ADMIN_TOKEN
    \/ BearerAdmin(req, now)

\* the stored delegation of the account a context names
Delegated(ctx) ==
    \E i \in 1..Len(users) : users[i].id = ctx.user_id /\ users[i].can_delete_own_logs

\* C35: log ids are assigned in strictly increasing order, no step changes an
\* entry that stays in the log, and entries leave the log only in a successful
\* delete request of an administrator (DELETE /logs, DELETE by-id logs) or of an
\* administrator or delegated caller on DELETE /logs/mine.
C35_AppendOnly ==
    [][/\ \A r \in logs' \ logs : /\ \A q \in logs : q.id < r.id
                                  /\ next_log_id <= r.id /\ r.id < next_log_id'
       /\ next_log_id <= next_log_id'
       /\ \A r \in logs', q \in logs : r.id = q.id => r = q
       /\ logs \ logs' # {} =>
            /\ last'.status = 200
            /\ \/ /\ last'.op \in {"delete_logs", "user_logs_by_id"}
                  /\ AdminCaller(last'.arg.req)
               \/ /\ last'.op = "delete_mine"
                  /\ last'.ctx[1].role = "admin" \/ Delegated(last'.ctx[1])]_vars

\* reached: the delegated user emptied the log of their entries, then a new
\* entry got the next id
C35_Witness ==
    /\ last.op = "predict" /\ last.arg.log_id # <<>>
    /\ last.arg.log_id[1] = next_log_id - 1
    /\ Cardinality(logs) < next_log_id - 1

(***************************************************************************)
(* SpecGate: the endpoints behind the administrator test                   *)
(***************************************************************************)
\* no credentials, the legacy header (right, wrong, or holding a non-ASCII
\* character) and the tokens of the two accounts
GateRequests ==
    {[authz |-> NoAuthz, xadmin |-> x] : x \in {<<>>, <<"s", "k">>, <<"s">>, <<"U+00E9">>}}
      \cup {[authz |-> Bearer(t), xadmin |-> <<>>] : t \in StatelessTokens \ {ForgedToken}}

\* the bootstrap accounts and one log entry of the user, the model not loaded
GateInit ==
    /\ AppendInit
    /\ users = InsertAll(<<>>, BootstrapRows)
    /\ logs = {LogRow(1, _default_email(USER_USERNAME), <<>>)}

GateCreateInputs ==
    { [email |-> <<"e", "@", "x">>, username |-> <<"e", "v", "e">>, password |-> Password8,
       role |-> "user"] }

\* the request req to one of the two endpoints whose answer does not record it
CreateOrPermit(req) ==
    \/ \E inp \in GateCreateInputs, store_ok \in BOOLEAN : AdminCreateUser(req, inp, store_ok)
    \/ \E can_delete \in BOOLEAN, fault \in {"none", "down"} :
            AdminSetUserPermissions(req, USER_USERNAME, can_delete, fault)

\* one request to an endpoint behind the administrator test
GateStep(req) ==
    \/ \E outcome \in {"trained", "error", "raises"} : Train(req, outcome)
    \/ \E q \in AppendQueries, store_ok \in BOOLEAN : DeleteLogs(req, q, store_ok)
    \/ \E store_ok \in BOOLEAN : AdminListUsers(req, store_ok)
    \/ CreateOrPermit(req)
    \/ \E role \in {"admin", "user"}, store_ok \in BOOLEAN :
            AdminChangeRole(req, USER_USERNAME, role, store_ok)
    \/ \E role \in {"admin", "user"}, store \in {"ok", "down"} :
            AdminChangeRoleById(req, 2, role, store)
    \/ \E store_ok \in BOOLEAN : AdminChangePassword(req, USER_USERNAME, Password8, store_ok)
    \/ \E method \in {"GET", "DELETE"}, store_ok \in BOOLEAN :
            AdminUserLogsById(req, method, 2, <<>>, store_ok)

NextGate == \E req \in GateRequests : GateStep(req)

SpecGate == GateInit /\ [][NextGate]_vars

\* the endpoints behind the administrator test whose answer records the request
GateOps ==
    {"train", "delete_logs", "list_users", "change_role", "change_role_by_id",
     "change_password", "user_logs_by_id"}

\* the step is a request of a caller that is not an administrator to one of
\* those endpoints
NotAdminRecorded == last'.op \in GateOps /\ ~ AdminCaller(last'.arg.req)

\* the step is a request of such a caller to one of the other two endpoints
NotAdminUnrecorded(req) ==
    /\ last'.op \in {"admin_create_user", "set_permissions"}
    /\ ~ AdminCaller(req)
    /\ CreateOrPermit(req)

GateFrame == UNCHANGED <<users, perms, logs, MODEL>>

\* C39: a request to an admin-gated endpoint from a caller that is not an
\* administrator is answered 401 and leaves the users, the permissions mirror,
\* the prediction log and the loaded model unchanged.
C39_GateFirst ==
    [][/\ NotAdminRecorded => last'.status = 401 /\ GateFrame
       /\ \A req \in GateRequests :
             NotAdminUnrecorded(req) => last'.status = 401 /\ GateFrame]_vars

\* a non-administrator changes nothing, whatever the answer
GateKeepsState ==
    [][/\ NotAdminRecorded => last'.status \in {401, 500} /\ GateFrame
       /\ \A req \in GateRequests :
             NotAdminUnrecorded(req)
               => last'.status \in {401, 500} /\ GateFrame]_vars

\* the legacy header can be compared with the configured secret
Comparable(req) ==
    ADMIN_TOKEN = <<>> \/ \A i \in 1..Len(req.xadmin) : req.xadmin[i] # "U+00E9"

\* 401 whenever the legacy header can be compared with the secret
GateRefusesComparable ==
    [][/\ NotAdminRecorded /\ Comparable(last'.arg.req) => last'.status = 401
       /\ \A req \in GateRequests :
             NotAdminUnrecorded(req) /\ Comparable(req)
               => last'.status = 401]_vars

\* reached: the non-ASCII header against a configured secret is answered 500
GateRaised ==
    /\ last.op = "train" /\ last.status = 500
    /\ last.arg.req.xadmin = <<"U+00E9">> /\ ADMIN_TOKEN # <<>> /\ MODEL = "pipeline"

(***************************************************************************)
(* init_db failing before its commit (checked under SpecInit)              *)
(***************************************************************************)
\* the call of thread t ends in an exception in this step
InitFails(t) == pc[t] # "raised" /\ pc'[t] = "raised"

\* C38: a call of init_db that fails before its commit leaves the flag as it
\* was (false), does not hold the lock afterwards and persists no bootstrap
\* row; the users table never holds one bootstrap record without the other;
\* the flag is set only by a call whose commit succeeded, and never reset.
C38_FailedInitRepeats ==
    /\ [][\A t \in Threads : InitFails(t) =>
              /\ ~ schema_ready /\ ~ schema_ready'
              /\ schema_lock' # t
              /\ users' = users /\ txn'[t] = <<>>]_vars
    /\ [](users = <<>> \/ OneAdminOneUser(users))
    /\ [][schema_ready' # schema_ready =>
              /\ schema_ready'
              /\ \E t \in Threads : pc[t] = "set_flag" /\ txn[t] = <<>>
              /\ OneAdminOneUser(users)]_vars

\* reached: a call failed after its bootstrap block had begun, and a later call
\* ran the block again, committed and set the flag
C38_Witness ==
    /\ faults = 1 /\ boot_runs = 2 /\ boot_commits = 1
    /\ schema_ready /\ schema_lock = 0 /\ OneAdminOneUser(users)

====
